---- MODULE Spec2Model ----
(***************************************************************************)
(* A model of the MCP tool server of main/mcp_server.cc: the tool registry *)
(* (AddTool, AddUserOnlyTool, AddCommonTools, AddUserOnlyTools), the       *)
(* JSON-RPC dispatcher (ParseMessage), the paginated tools/list            *)
(* (GetToolsList), tools/call (DoToolCall) and the closures it schedules   *)
(* on the main context; and of the device state machine of                 *)
(* main/device_state_machine.cc (TransitionTo and its listeners).          *)
(*                                                                         *)
(* Strings are TLA+ strings, so that lengths are real lengths.  A JSON     *)
(* value is a record tagged with its cJSON type.  The serialised form of a *)
(* tool (McpTool::to_json, declared in mcp_server.h) enters the listing    *)
(* only through its length, which is carried by the tool as json_len.      *)
(***************************************************************************)
EXTENDS Integers, Sequences, FiniteSets, TLC

VARIABLES
    board,      \* what Board::GetInstance() offers on this build and device
    tools_,     \* McpServer::tools_, the registry, in order
    phase,      \* "init" while tools are registered, "serving" afterwards
    reg_op,     \* the registration call made last, with the registry it found
    req,        \* the inbound message last handed to ParseMessage
    sent,       \* the replies given to SendMcpMessage since req arrived
    queue,      \* the closures given to Application::Schedule, oldest first
    camera_url, \* what the camera was last given by SetExplainUrl
    chain,      \* a client following nextCursor from tools/list("")
    current_state_,     \* DeviceStateMachine::current_state_ (atomic)
    listeners_,         \* DeviceStateMachine::listeners_: (id, callback) pairs
    next_listener_id_,  \* DeviceStateMachine::next_listener_id_
    mutex_,             \* DeviceStateMachine::mutex_: the context holding it, 0 if none
    ctx                 \* each context's position in TransitionTo, and its locals

server_vars == <<board, tools_, phase, reg_op, req, sent, queue, camera_url, chain>>

device_vars == <<current_state_, listeners_, next_listener_id_, mutex_, ctx>>

vars == <<board, tools_, phase, reg_op, req, sent, queue, camera_url, chain,
          current_state_, listeners_, next_listener_id_, mutex_, ctx>>

(***************************************************************************)
(* Bounds of the model.                                                    *)
(***************************************************************************)
MaxTools == 6
MaxQueue == 1
MaxListenerId == 2

(***************************************************************************)
(* JSON values as cJSON sees them.                                         *)
(***************************************************************************)
Absent == [t |-> "absent"]
Str(s) == [t |-> "string", v |-> s]
Num(n) == [t |-> "number", v |-> n]
Bool(b) == [t |-> "bool", v |-> b]
Obj(o) == [t |-> "object", v |-> o]

\* As Present, for a test that takes a JSON null for a missing item.
PresentNotNull(j) == j.t \notin {"absent", "null"}

\* The item is there: the pointer cJSON_GetObjectItem returned is not nullptr.
Present(j) == j.t # "absent"
cJSON_IsString(j) == j.t = "string"
cJSON_IsNumber(j) == j.t = "number"
cJSON_IsBool(j) == j.t = "bool"
cJSON_IsObject(j) == j.t = "object"

cJSON_GetObjectItem(j, key) ==
    IF j.t = "object" /\ key \in DOMAIN j.v THEN j.v[key] ELSE Absent

(***************************************************************************)
(* Property and McpTool.                                                   *)
(***************************************************************************)
kPropertyTypeBoolean == "boolean"
kPropertyTypeInteger == "integer"
kPropertyTypeString == "string"

\* A property holds its value: the default value until set_value replaces it,
\* Absent when it has neither.
\* Property(name, type): no default value, no range.
Property(name, type) ==
    [name |-> name, type |-> type, has_default |-> FALSE, value |-> Absent,
     has_range |-> FALSE, min |-> 0, max |-> 0]

\* Property(name, type, default_value).
PropertyDefault(name, type, dflt) ==
    [name |-> name, type |-> type, has_default |-> TRUE, value |-> dflt,
     has_range |-> FALSE, min |-> 0, max |-> 0]

\* Property(name, kPropertyTypeInteger, min_value, max_value).
PropertyRange(name, lo, hi) ==
    [name |-> name, type |-> kPropertyTypeInteger, has_default |-> FALSE,
     value |-> Absent, has_range |-> TRUE, min |-> lo, max |-> hi]

\* Property(name, kPropertyTypeInteger, default_value, min_value, max_value).
PropertyDefaultRange(name, dflt, lo, hi) ==
    [name |-> name, type |-> kPropertyTypeInteger, has_default |-> TRUE,
     value |-> Num(dflt), has_range |-> TRUE, min |-> lo, max |-> hi]

\* new McpTool(name, description, properties, callback); user_only_ is false
\* until set_user_only.  json_len is the length of the tool's to_json().
McpTool(name, json_len, properties, callback) ==
    [name |-> name, json_len |-> json_len, properties |-> properties,
     callback |-> callback, user_only |-> FALSE]

set_user_only(tool, b) == [tool EXCEPT !.user_only = b]

ToJsonLen(tool) == tool.json_len

(***************************************************************************)
(* The boards: what the collaborators of a build offer.  AddCommonTools    *)
(* reads backlight, lvgl (HAVE_LVGL), theme and camera; AddUserOnlyTools   *)
(* reads lvgl, lvgl_display, snapshot (CONFIG_LV_USE_SNAPSHOT) and assets. *)
(***************************************************************************)
Boards ==
    { [backlight |-> FALSE, lvgl |-> FALSE, theme |-> FALSE, camera |-> FALSE,
       lvgl_display |-> FALSE, snapshot |-> FALSE, assets |-> FALSE],
      [backlight |-> TRUE, lvgl |-> TRUE, theme |-> TRUE, camera |-> TRUE,
       lvgl_display |-> TRUE, snapshot |-> TRUE, assets |-> TRUE] }

(***************************************************************************)
(* The registry.                                                           *)
(***************************************************************************)
HasName(reg, name) == \E i \in 1..Len(reg) : reg[i].name = name

\* As FindTool, for a lookup that sees only the tools tools/list shows.
FindListedTool(reg, name) ==
    IF \E i \in 1..Len(reg) : reg[i].name = name /\ ~reg[i].user_only
    THEN CHOOSE i \in 1..Len(reg) :
            /\ reg[i].name = name /\ ~reg[i].user_only
            /\ \A j \in 1..(i - 1) : ~(reg[j].name = name /\ ~reg[j].user_only)
    ELSE 0

\* As FindTool, for a lookup that falls back on the first tool.
FindToolOrFirst(reg, name) ==
    IF \E i \in 1..Len(reg) : reg[i].name = name
    THEN CHOOSE i \in 1..Len(reg) :
            reg[i].name = name /\ \A j \in 1..(i - 1) : reg[j].name # name
    ELSE IF reg = <<>> THEN 0 ELSE 1

\* std::find_if over the registry: the first index with that name, 0 for end().
FindTool(reg, name) ==
    IF HasName(reg, name)
    THEN CHOOSE i \in 1..Len(reg) :
            /\ reg[i].name = name
            /\ \A j \in 1..(i - 1) : reg[j].name # name
    ELSE 0

\* As AddTool, without the search for a tool of the same name.
AddToolAlways(reg, tool) == Append(reg, tool)

\* McpServer::AddTool(McpTool*)
AddTool(reg, tool) ==
    IF HasName(reg, tool.name) THEN reg ELSE Append(reg, tool)

\* McpServer::AddUserOnlyTool
AddUserOnlyTool(reg, tool) == AddTool(reg, set_user_only(tool, TRUE))

RECURSIVE AddTools(_, _)
AddTools(reg, batch) ==
    IF batch = <<>> THEN reg
    ELSE AddTools(AddTool(reg, Head(batch)), Tail(batch))

RECURSIVE AddUserOnlyToolSeq(_, _)
AddUserOnlyToolSeq(reg, batch) ==
    IF batch = <<>> THEN reg
    ELSE AddUserOnlyToolSeq(AddUserOnlyTool(reg, Head(batch)), Tail(batch))

\* The tools AddCommonTools registers, in the order of its AddTool calls.
CommonTools(b) ==
    << McpTool("self.get_device_status", 455, <<>>, "get_device_status"),
       McpTool("self.audio_speaker.set_volume", 325,
               <<PropertyRange("volume", 0, 100)>>, "set_volume"),
       McpTool("self.led.turn_on", 116, <<>>, "led_turn_on") >>
    \o (IF b.backlight
        THEN << McpTool("self.screen.set_brightness", 218,
                        <<PropertyRange("brightness", 0, 100)>>, "set_brightness") >>
        ELSE <<>>)
    \o (IF b.lvgl /\ b.theme
        THEN << McpTool("self.screen.set_theme", 207,
                        <<Property("theme", kPropertyTypeString)>>, "set_theme") >>
        ELSE <<>>)
    \o (IF b.lvgl /\ b.camera
        THEN << McpTool("self.camera.take_photo", 406,
                        <<Property("question", kPropertyTypeString)>>, "take_photo") >>
        ELSE <<>>)

\* As AddCommonTools, adding the common tools behind the tools already there.
AddCommonToolsBehind(reg, b) == AddTools(reg, CommonTools(b))

\* McpServer::AddCommonTools: the registry is moved aside, the common tools
\* are added to the empty registry, the tools moved aside are inserted at
\* the end.
AddCommonTools(reg, b) ==
    LET original_tools == reg
    IN  AddTools(<<>>, CommonTools(b)) \o original_tools

\* The tools AddUserOnlyTools registers, in the order of its calls.
UserOnlyTools(b) ==
    << McpTool("self.get_system_info", 158, <<>>, "get_system_info"),
       McpTool("self.reboot", 140, <<>>, "reboot"),
       McpTool("self.upgrade_firmware", 334,
               <<PropertyDefault("url", kPropertyTypeString,
                   Str("The URL of the firmware binary file to download and install"))>>,
               "upgrade_firmware") >>
    \o (IF b.lvgl /\ b.lvgl_display
        THEN << McpTool("self.screen.get_info", 191, <<>>, "screen_get_info") >>
             \o (IF b.snapshot
                 THEN << McpTool("self.screen.snapshot", 293,
                                 <<Property("url", kPropertyTypeString),
                                   PropertyDefaultRange("quality", 80, 1, 100)>>,
                                 "screen_snapshot"),
                         McpTool("self.screen.preview_image", 209,
                                 <<Property("url", kPropertyTypeString)>>,
                                 "screen_preview_image") >>
                 ELSE <<>>)
        ELSE <<>>)
    \o (IF b.assets
        THEN << McpTool("self.assets.set_download_url", 217,
                        <<Property("url", kPropertyTypeString)>>, "set_download_url") >>
        ELSE <<>>)

\* McpServer::AddUserOnlyTools
AddUserOnlyTools(reg, b) == AddUserOnlyToolSeq(reg, UserOnlyTools(b))

(***************************************************************************)
(* Replies: ReplyResult and ReplyError hand one payload to the transport.  *)
(***************************************************************************)
ReplyResult(id, result) == [id |-> id, kind |-> "result", result |-> result]

ReplyError(id, message) == [id |-> id, kind |-> "error", message |-> message]

(***************************************************************************)
(* tools/list.                                                             *)
(***************************************************************************)
max_payload_size == 8000
PayloadReserve == 30

JsonOpen == "{\"tools\":["
JsonClose == "]}"
JsonCursorOpen == "],\"nextCursor\":\""
JsonCursorClose == "\"}"

\* As ExceedsPayload, with nothing kept back for the closing of the result.
ExceedsPayloadNoReserve(json_len, tool_json_len) ==
    json_len + tool_json_len > max_payload_size

\* The test of line 510: adding tool_json would exceed the size limit.
ExceedsPayload(json_len, tool_json_len) ==
    json_len + tool_json_len + PayloadReserve > max_payload_size

\* As FoundAtStart, for a walk that pays no attention to the cursor.
FoundAtStartAlways(cursor) == TRUE

\* found_cursor at the start of the walk: there is nothing to look for when
\* the cursor is empty.
FoundAtStart(cursor) == cursor = ""

\* As SkipsTool, moving past the tool of the cursor as well.
SkipsToolAndCursor(found_cursor, name, cursor) == ~found_cursor

\* Lines 494-501: the tool whose name is the cursor is the first one that is
\* not skipped; TRUE when the walk moves past this tool looking for it.
SkipsTool(found_cursor, name, cursor) ==
    ~found_cursor /\ name # cursor

\* As HidesTool, for a listing that leaves no tool out.
HidesNone(list_user_only_tools, tool) == FALSE

\* Lines 503-506: a user-only tool is left out unless they were asked for.
HidesTool(list_user_only_tools, tool) ==
    ~list_user_only_tools /\ tool.user_only

\* The while loop of GetToolsList from position i on.  json_len is
\* json.length(), added the names of the tools appended to json so far.
RECURSIVE WalkTools(_, _, _, _, _, _, _)
WalkTools(reg, cursor, list_user_only_tools, i, found_cursor, json_len, added) ==
    IF i > Len(reg)
    THEN [json_len |-> json_len, added |-> added, next_cursor |-> ""]
    ELSE IF SkipsTool(found_cursor, reg[i].name, cursor)
    THEN WalkTools(reg, cursor, list_user_only_tools, i + 1,
                   found_cursor \/ reg[i].name = cursor, json_len, added)
    ELSE IF HidesTool(list_user_only_tools, reg[i])
    THEN WalkTools(reg, cursor, list_user_only_tools, i + 1, TRUE, json_len, added)
    ELSE IF ExceedsPayload(json_len, ToJsonLen(reg[i]) + 1)
    THEN [json_len |-> json_len, added |-> added, next_cursor |-> reg[i].name]
    ELSE WalkTools(reg, cursor, list_user_only_tools, i + 1, TRUE,
                   json_len + ToJsonLen(reg[i]) + 1, Append(added, reg[i].name))

\* As NothingAdded, for a listing that never reports the failure.
NothingAddedIgnored(added, reg) == FALSE

\* The test of line 524: json still ends with '[' and there are tools.
NothingAdded(added, reg) == added = <<>> /\ reg # <<>>

\* McpServer::GetToolsList: the reply it sends.  The result carries the names
\* of the tools of the page, nextCursor ("" when the field is omitted) and the
\* length of the result text.
GetToolsList(reg, id, cursor, list_user_only_tools) ==
    LET w == WalkTools(reg, cursor, list_user_only_tools, 1, FoundAtStart(cursor),
                       Len(JsonOpen), <<>>)
        \* json.pop_back() when json ends with ','
        popped == IF w.added # <<>> THEN w.json_len - 1 ELSE w.json_len
    IN  IF NothingAdded(w.added, reg)
        THEN ReplyError(id, "Failed to add tool " \o w.next_cursor
                            \o " because of payload size limit")
        ELSE IF w.next_cursor = ""
        THEN ReplyResult(id, [tools |-> w.added, nextCursor |-> "",
                              len |-> popped + Len(JsonClose)])
        ELSE ReplyResult(id, [tools |-> w.added, nextCursor |-> w.next_cursor,
                              len |-> popped + Len(JsonCursorOpen)
                                      + Len(w.next_cursor) + Len(JsonCursorClose)])

(***************************************************************************)
(* tools/call: binding the arguments and scheduling the call.              *)
(***************************************************************************)
\* As SetValue, for a set_value that checks no range.
SetValueUnchecked(prop, jv) ==
    [ok |-> TRUE, what |-> "", prop |-> [prop EXCEPT !.value = jv]]

\* Property::set_value: an integer outside the declared range throws.
SetValue(prop, jv) ==
    IF prop.type = kPropertyTypeInteger /\ prop.has_range /\ jv.v < prop.min
    THEN [ok |-> FALSE, what |-> "Value is below minimum allowed", prop |-> prop]
    ELSE IF prop.type = kPropertyTypeInteger /\ prop.has_range /\ jv.v > prop.max
    THEN [ok |-> FALSE, what |-> "Value exceeds maximum allowed", prop |-> prop]
    ELSE [ok |-> TRUE, what |-> "", prop |-> [prop EXCEPT !.value = jv]]

\* As WireTypeMatches, for a binder that takes any present argument for a
\* property that is no integer.
WireTypeLoose(prop, value) ==
    IF prop.type = kPropertyTypeInteger THEN cJSON_IsNumber(value) ELSE Present(value)

\* Lines 558-567: the argument has the wire type of the property.
WireTypeMatches(prop, value) ==
    \/ prop.type = kPropertyTypeBoolean /\ cJSON_IsBool(value)
    \/ prop.type = kPropertyTypeInteger /\ cJSON_IsNumber(value)
    \/ prop.type = kPropertyTypeString /\ cJSON_IsString(value)

\* The for loop of DoToolCall over the copy of the properties, from
\* position i on: bound are the properties already gone through.
RECURSIVE BindArguments(_, _, _, _)
BindArguments(arguments, tool_arguments, i, bound) ==
    IF i > Len(arguments)
    THEN [ok |-> TRUE, what |-> "", arguments |-> bound]
    ELSE LET argument == arguments[i]
             value == cJSON_GetObjectItem(tool_arguments, argument.name)
             found == cJSON_IsObject(tool_arguments) /\ WireTypeMatches(argument, value)
             set == IF found THEN SetValue(argument, value)
                    ELSE [ok |-> TRUE, what |-> "", prop |-> argument]
         IN  IF ~set.ok
             THEN [ok |-> FALSE, what |-> set.what, arguments |-> bound]
             ELSE IF ~argument.has_default /\ ~found
             THEN [ok |-> FALSE, what |-> "Missing valid argument: " \o argument.name,
                   arguments |-> bound]
             ELSE BindArguments(arguments, tool_arguments, i + 1,
                                Append(bound, set.prop))

\* What one call of a handler of ParseMessage does: the replies it sends, the
\* closures it gives to Application::Schedule, the explain URL it configures.
Outcome(replies, scheduled, explain_url) ==
    [replies |-> replies, scheduled |-> scheduled, explain_url |-> explain_url]

NoExplainUrl == [url |-> "", token |-> "", set |-> FALSE]

ToolCallClosure(id, tool_iter, arguments) ==
    [kind |-> "tool_call", id |-> id, tool_iter |-> tool_iter, arguments |-> arguments]

\* As DoToolCall, without the return of line 573 and of line 579: the call
\* is scheduled although its binding failed.
DoToolCallNoReturn(reg, id, tool_name, tool_arguments, explain_url) ==
    LET tool_iter == FindTool(reg, tool_name)
    IN  IF tool_iter = 0
        THEN Outcome(<<ReplyError(id, "Unknown tool: " \o tool_name)>>, <<>>, explain_url)
        ELSE LET b == BindArguments(reg[tool_iter].properties, tool_arguments, 1, <<>>)
             IN  Outcome(IF b.ok THEN <<>> ELSE <<ReplyError(id, b.what)>>,
                         <<ToolCallClosure(id, tool_iter, b.arguments)>>, explain_url)

\* As DoToolCall, calling the handler where it stands instead of handing a
\* closure to Application::Schedule.
DoToolCallInline(reg, id, tool_name, tool_arguments, explain_url) ==
    LET tool_iter == FindTool(reg, tool_name)
    IN  IF tool_iter = 0
        THEN Outcome(<<ReplyError(id, "Unknown tool: " \o tool_name)>>, <<>>, explain_url)
        ELSE LET b == BindArguments(reg[tool_iter].properties, tool_arguments, 1, <<>>)
             IN  IF ~b.ok
                 THEN Outcome(<<ReplyError(id, b.what)>>, <<>>, explain_url)
                 ELSE Outcome(<<ReplyResult(id,
                                  [tool |-> reg[tool_iter].name,
                                   callback |-> reg[tool_iter].callback,
                                   arguments |-> [i \in 1..Len(b.arguments) |->
                                                     b.arguments[i].value]])>>,
                              <<>>, explain_url)

\* McpServer::DoToolCall
DoToolCall(reg, id, tool_name, tool_arguments, explain_url) ==
    LET tool_iter == FindTool(reg, tool_name)
    IN  IF tool_iter = 0
        THEN Outcome(<<ReplyError(id, "Unknown tool: " \o tool_name)>>, <<>>, explain_url)
        ELSE LET b == BindArguments(reg[tool_iter].properties, tool_arguments, 1, <<>>)
             IN  IF ~b.ok
                 THEN Outcome(<<ReplyError(id, b.what)>>, <<>>, explain_url)
                 ELSE Outcome(<<>>, <<ToolCallClosure(id, tool_iter, b.arguments)>>,
                              explain_url)

(***************************************************************************)
(* The dispatcher.                                                         *)
(***************************************************************************)
\* As StartsWith, for a test that asks for the prefix and a slash after it.
StartsWithSlash(str, prefix) ==
    Len(str) > Len(prefix) /\ SubSeq(str, 1, Len(prefix) + 1) = prefix \o "/"

StartsWith(str, prefix) ==
    Len(str) >= Len(prefix) /\ SubSeq(str, 1, Len(prefix)) = prefix

\* McpServer::ParseCapabilities: the explain URL the camera is left with.
ParseCapabilities(capabilities, b, explain_url) ==
    LET vision == cJSON_GetObjectItem(capabilities, "vision")
        url == cJSON_GetObjectItem(vision, "url")
        token == cJSON_GetObjectItem(vision, "token")
    IN  IF cJSON_IsObject(vision) /\ cJSON_IsString(url) /\ b.camera
        THEN [url |-> url.v, token |-> IF cJSON_IsString(token) THEN token.v ELSE "",
              set |-> TRUE]
        ELSE explain_url

\* Lines 416-427.
Initialize(id, params, b, explain_url) ==
    LET capabilities == cJSON_GetObjectItem(params, "capabilities")
    IN  Outcome(<<ReplyResult(id, [protocolVersion |-> "2024-11-05"])>>, <<>>,
                IF cJSON_IsObject(params) /\ cJSON_IsObject(capabilities)
                THEN ParseCapabilities(capabilities, b, explain_url)
                ELSE explain_url)

\* Lines 428-441.
ToolsList(reg, id, params, explain_url) ==
    LET cursor == cJSON_GetObjectItem(params, "cursor")
        with_user_tools == cJSON_GetObjectItem(params, "withUserTools")
        cursor_str == IF cJSON_IsString(cursor) THEN cursor.v ELSE ""
        list_user_only_tools ==
            IF cJSON_IsBool(with_user_tools) THEN with_user_tools.v ELSE FALSE
    IN  Outcome(<<GetToolsList(reg, id, cursor_str, list_user_only_tools)>>, <<>>,
                explain_url)

\* As ToolsCall, without the three checks of the shape of params.
ToolsCallUnchecked(reg, id, params, explain_url) ==
    LET tool_name == cJSON_GetObjectItem(params, "name")
        tool_arguments == cJSON_GetObjectItem(params, "arguments")
    IN  DoToolCall(reg, id, IF cJSON_IsString(tool_name) THEN tool_name.v ELSE "",
                   tool_arguments, explain_url)

\* Lines 442-460.
ToolsCall(reg, id, params, explain_url) ==
    LET tool_name == cJSON_GetObjectItem(params, "name")
        tool_arguments == cJSON_GetObjectItem(params, "arguments")
    IN  IF ~cJSON_IsObject(params)
        THEN Outcome(<<ReplyError(id, "Missing params")>>, <<>>, explain_url)
        ELSE IF ~cJSON_IsString(tool_name)
        THEN Outcome(<<ReplyError(id, "Missing name")>>, <<>>, explain_url)
        ELSE IF Present(tool_arguments) /\ ~cJSON_IsObject(tool_arguments)
        THEN Outcome(<<ReplyError(id, "Invalid arguments")>>, <<>>, explain_url)
        ELSE DoToolCall(reg, id, tool_name.v, tool_arguments, explain_url)

\* McpServer::ParseMessage(const cJSON*)
ParseMessage(reg, b, explain_url, json) ==
    LET version == cJSON_GetObjectItem(json, "jsonrpc")
        method == cJSON_GetObjectItem(json, "method")
        params == cJSON_GetObjectItem(json, "params")
        id == cJSON_GetObjectItem(json, "id")
        dropped == Outcome(<<>>, <<>>, explain_url)
    IN  IF ~cJSON_IsString(version) \/ version.v # "2.0" THEN dropped
        ELSE IF ~cJSON_IsString(method) THEN dropped
        ELSE IF StartsWith(method.v, "notifications") THEN dropped
        ELSE IF Present(params) /\ ~cJSON_IsObject(params) THEN dropped
        ELSE IF ~cJSON_IsNumber(id) THEN dropped
        ELSE IF method.v = "initialize" THEN Initialize(id.v, params, b, explain_url)
        ELSE IF method.v = "tools/list" THEN ToolsList(reg, id.v, params, explain_url)
        ELSE IF method.v = "tools/call" THEN ToolsCall(reg, id.v, params, explain_url)
        ELSE Outcome(<<ReplyError(id.v, "Method not implemented: " \o method.v)>>,
                     <<>>, explain_url)

(***************************************************************************)
(* The tools a board registers in its InitializeTools, and the messages a  *)
(* client sends: the inputs of the model.                                  *)
(***************************************************************************)
\* Lengths of to_json(): the largest that fits a page alone (Full), the
\* smallest that fits none (Over), and one of which two fill a page (Half).
Full == max_payload_size - PayloadReserve - Len(JsonOpen) - 1
Over == Full + 1
Half == (Full - 1) \div 2

BoardTool(name, json_len) == McpTool(name, json_len, <<>>, "board_tool")

\* The tools a board adds with AddTool and with AddUserOnlyTool.
BoardTools ==
    { BoardTool("self.fan.on", Half), BoardTool("self.fan.on", Full),
      BoardTool("self.chassis.go_forward", Half),
      BoardTool("self.chassis.go_forward", Over),
      BoardTool("self.light.set_rgb", Half) }

BoardUserOnlyTools == { BoardTool("self.fan.on", Over) }

Request(id, method, params) ==
    Obj([jsonrpc |-> Str("2.0"), method |-> Str(method), params |-> params,
         id |-> Num(id)])

\* The cursors of interest for a registry: none, every name in it, a name
\* that is not in it.
Cursors(reg) == {"", "self.no_such_tool"} \cup {reg[i].name : i \in 1..Len(reg)}

ListParams(reg) ==
    {Absent}
    \cup { Obj([cursor |-> Str(c)]) : c \in Cursors(reg) }
    \cup { Obj([cursor |-> Str(c), withUserTools |-> Bool(TRUE)]) :
             c \in Cursors(reg) }
    \cup { Obj([cursor |-> Num(3), withUserTools |-> Num(1)]) }

ListRequests(reg) == { Request(1, "tools/list", p) : p \in ListParams(reg) }

(***************************************************************************)
(* The device state machine: DeviceState, the transition table, and the    *)
(* steps of TransitionTo and NotifyStateChange as a context takes them.    *)
(* The load and the store of current_state_ are atomic, each is one step;  *)
(* mutex_ is taken in a step of its own, which waits while it is held.     *)
(***************************************************************************)
kDeviceStateUnknown == 0
kDeviceStateStarting == 1
kDeviceStateWifiConfiguring == 2
kDeviceStateIdle == 3
kDeviceStateConnecting == 4
kDeviceStateListening == 5
kDeviceStateSpeaking == 6
kDeviceStateUpgrading == 7
kDeviceStateActivating == 8
kDeviceStateAudioTesting == 9
kDeviceStateFatalError == 10

DeviceStates == kDeviceStateUnknown..kDeviceStateFatalError

\* The switch of IsValidTransition, lines 41-91.
SwitchFrom(from, to) ==
    CASE from = kDeviceStateUnknown -> to = kDeviceStateStarting
      [] from = kDeviceStateStarting ->
            to = kDeviceStateWifiConfiguring \/ to = kDeviceStateActivating
      [] from = kDeviceStateWifiConfiguring ->
            to = kDeviceStateActivating \/ to = kDeviceStateAudioTesting
      [] from = kDeviceStateAudioTesting -> to = kDeviceStateWifiConfiguring
      [] from = kDeviceStateActivating ->
            to = kDeviceStateUpgrading \/ to = kDeviceStateIdle
            \/ to = kDeviceStateWifiConfiguring
      [] from = kDeviceStateUpgrading ->
            to = kDeviceStateIdle \/ to = kDeviceStateActivating
      [] from = kDeviceStateIdle ->
            to = kDeviceStateConnecting \/ to = kDeviceStateListening
            \/ to = kDeviceStateSpeaking \/ to = kDeviceStateActivating
            \/ to = kDeviceStateUpgrading \/ to = kDeviceStateWifiConfiguring
      [] from = kDeviceStateConnecting ->
            to = kDeviceStateIdle \/ to = kDeviceStateListening
      [] from = kDeviceStateListening ->
            to = kDeviceStateSpeaking \/ to = kDeviceStateIdle
      [] from = kDeviceStateSpeaking ->
            to = kDeviceStateListening \/ to = kDeviceStateIdle
      [] from = kDeviceStateFatalError -> FALSE
      [] OTHER -> FALSE

\* As IsValidTransition, with a way out of the fatal error.
IsValidTransitionRecovering(from, to) ==
    from = to \/ SwitchFrom(from, to)
    \/ (from = kDeviceStateFatalError /\ to = kDeviceStateStarting)

\* As IsValidTransition, with a way back to the start from the idle state.
IsValidTransitionRestarting(from, to) ==
    from = to \/ SwitchFrom(from, to)
    \/ (from = kDeviceStateIdle /\ to = kDeviceStateStarting)

\* As IsValidTransition, for a table that lets every state follow every state.
IsValidTransitionAny(from, to) == TRUE

\* DeviceStateMachine::IsValidTransition
IsValidTransition(from, to) ==
    IF from = to THEN TRUE ELSE SwitchFrom(from, to)

\* As TransitionToCheck, without the early return of lines 102-104.
TransitionToCheckNoShortcut(old_state, new_state) ==
    IF ~IsValidTransition(old_state, new_state) THEN "invalid" ELSE "store"

\* Lines 102-111 of TransitionTo: what it does with the state it has read.
TransitionToCheck(old_state, new_state) ==
    IF old_state = new_state THEN "noop"
    ELSE IF ~IsValidTransition(old_state, new_state) THEN "invalid"
    ELSE "store"

\* The callbacks of the model: one that only takes note of the change, one
\* that adds a listener, one that removes the listener of a given id.
PlainCallback == [kind |-> "plain", target |-> 0]

AddingCallback == [kind |-> "add", target |-> 0]

RemovingCallback(id) == [kind |-> "remove", target |-> id]

ListenerIds == 0..(MaxListenerId - 1)

Callbacks == {PlainCallback, AddingCallback} \cup {RemovingCallback(id) : id \in ListenerIds}

\* listeners_.emplace_back(id, std::move(callback))
EmplaceBack(ls, id, callback) == Append(ls, [id |-> id, cb |-> callback])

\* std::remove_if and erase, lines 132-135.
EraseListener(ls, listener_id) == SelectSeq(ls, LAMBDA p : p.id # listener_id)

\* Lines 142-145: the callbacks of the listeners, in their order.
CallbacksCopy(ls) == [k \in 1..Len(ls) |-> ls[k].cb]

Contexts == {1, 2}

\* A context that is in no call of the state machine.
IdleContext ==
    [pc |-> "idle", old_state |-> kDeviceStateUnknown, new_state |-> kDeviceStateUnknown,
     ret |-> "none", replaced |-> kDeviceStateUnknown, callbacks_copy |-> <<>>,
     at_copy |-> <<>>, i |-> 0, invoked |-> <<>>]

\* The object after construction.
InitDevice ==
    /\ current_state_ = kDeviceStateUnknown
    /\ listeners_ = <<>>
    /\ next_listener_id_ = 0
    /\ mutex_ = 0
    /\ ctx = [c \in Contexts |-> IdleContext]

\* The listeners that add a listener when they are notified.
Adding(ls) == {k \in 1..Len(ls) : ls[k].cb.kind = "add"}

\* TransitionTo(new_state), lines 99-111: the load and what follows from the
\* value read.  The call is made while there are ids left for the listeners
\* its notification will add.
TransitionTo(c, new_state) ==
    LET old_state == current_state_
        check == TransitionToCheck(old_state, new_state)
    IN  /\ ctx[c].pc = "idle"
        /\ next_listener_id_ + Cardinality(Adding(listeners_)) <= MaxListenerId
        /\ ctx' = [ctx EXCEPT ![c] =
                     [IdleContext EXCEPT
                        !.old_state = old_state,
                        !.new_state = new_state,
                        !.replaced = old_state,
                        !.pc = IF check = "store" THEN "store" ELSE "idle",
                        !.ret = IF check = "noop" THEN "true"
                                ELSE IF check = "invalid" THEN "false" ELSE "none"]]
        /\ UNCHANGED <<current_state_, listeners_, next_listener_id_, mutex_>>
        /\ UNCHANGED server_vars

\* Line 114: current_state_.store(new_state).
TransitionToStore(c) ==
    /\ ctx[c].pc = "store"
    /\ current_state_' = ctx[c].new_state
    /\ ctx' = [ctx EXCEPT ![c].pc = "lock", ![c].replaced = current_state_]
    /\ UNCHANGED <<listeners_, next_listener_id_, mutex_>>
    /\ UNCHANGED server_vars

\* Line 141 of NotifyStateChange: the lock_guard takes mutex_.
NotifyStateChangeLock(c) ==
    /\ ctx[c].pc = "lock"
    /\ mutex_ = 0
    /\ mutex_' = c
    /\ ctx' = [ctx EXCEPT ![c].pc = "copy"]
    /\ UNCHANGED <<current_state_, listeners_, next_listener_id_>>
    /\ UNCHANGED server_vars

\* As NotifyStateChangeCopy, with a lock_guard that lives to the end of the
\* function: mutex_ stays with the context.
NotifyStateChangeCopyHolding(c) ==
    /\ ctx[c].pc = "copy"
    /\ mutex_' = c
    /\ ctx' = [ctx EXCEPT ![c].pc = "invoke", ![c].i = 1,
                          ![c].callbacks_copy = CallbacksCopy(listeners_),
                          ![c].at_copy = listeners_]
    /\ UNCHANGED <<current_state_, listeners_, next_listener_id_>>
    /\ UNCHANGED server_vars

\* Lines 142-146: the callbacks are copied, the lock_guard goes out of scope.
NotifyStateChangeCopy(c) ==
    /\ ctx[c].pc = "copy"
    /\ mutex_' = 0
    /\ ctx' = [ctx EXCEPT ![c].pc = "invoke", ![c].i = 1,
                          ![c].callbacks_copy = CallbacksCopy(listeners_),
                          ![c].at_copy = listeners_]
    /\ UNCHANGED <<current_state_, listeners_, next_listener_id_>>
    /\ UNCHANGED server_vars

\* Lines 148-149: the next callback of the copy is called with the states
\* the context holds.  What the callback sees is noted: the state stored at
\* that moment, and whether the calling context holds mutex_.
NotifyStateChangeInvoke(c) ==
    /\ ctx[c].pc = "invoke"
    /\ ctx[c].i <= Len(ctx[c].callbacks_copy)
    /\ ctx' = [ctx EXCEPT ![c].pc = "callback",
                          ![c].invoked = Append(@, [cb |-> ctx[c].callbacks_copy[ctx[c].i],
                                                    old |-> ctx[c].old_state,
                                                    new |-> ctx[c].new_state,
                                                    current |-> current_state_,
                                                    holding |-> mutex_ = c])]
    /\ UNCHANGED <<current_state_, listeners_, next_listener_id_, mutex_>>
    /\ UNCHANGED server_vars

\* AddStateChangeListener, lines 124-127, from the lock_guard to its end:
\* the call waits while mutex_ is held.
ListenerAdded(callback) ==
    /\ mutex_ = 0
    /\ listeners_' = EmplaceBack(listeners_, next_listener_id_, callback)
    /\ next_listener_id_' = next_listener_id_ + 1
    /\ UNCHANGED <<current_state_, mutex_>>

\* RemoveStateChangeListener, lines 131-135, from the lock_guard to its end.
ListenerRemoved(listener_id) ==
    /\ mutex_ = 0
    /\ listeners_' = EraseListener(listeners_, listener_id)
    /\ UNCHANGED <<current_state_, next_listener_id_, mutex_>>

\* The body of the callback that was called, and its return to the loop.
CallbackReturns(c) ==
    LET cb == ctx[c].callbacks_copy[ctx[c].i]
    IN  /\ ctx[c].pc = "callback"
        /\ CASE cb.kind = "add" -> ListenerAdded(PlainCallback)
             [] cb.kind = "remove" -> ListenerRemoved(cb.target)
             [] OTHER -> UNCHANGED <<current_state_, listeners_, next_listener_id_, mutex_>>
        /\ ctx' = [ctx EXCEPT ![c].pc = "invoke", ![c].i = @ + 1]
        /\ UNCHANGED server_vars

\* The loop of lines 148-150 has ended: NotifyStateChange returns, and
\* TransitionTo returns true (line 120).  A lock_guard still alive ends here.
NotifyStateChangeReturn(c) ==
    /\ ctx[c].pc = "invoke"
    /\ ctx[c].i > Len(ctx[c].callbacks_copy)
    /\ ctx' = [ctx EXCEPT ![c].pc = "idle", ![c].ret = "true"]
    /\ mutex_' = IF mutex_ = c THEN 0 ELSE mutex_
    /\ UNCHANGED <<current_state_, listeners_, next_listener_id_>>
    /\ UNCHANGED server_vars

\* A context that is in no call adds a listener.
AddStateChangeListener(c, S) ==
    \E callback \in S :
        /\ ctx[c].pc = "idle"
        /\ next_listener_id_ < MaxListenerId
        /\ ListenerAdded(callback)
        /\ UNCHANGED ctx
        /\ UNCHANGED server_vars

\* A context that is in no call removes the listener of an id it was given.
RemoveStateChangeListener(c) ==
    \E listener_id \in ListenerIds :
        /\ ctx[c].pc = "idle"
        /\ listener_id < next_listener_id_
        /\ ListenerRemoved(listener_id)
        /\ UNCHANGED ctx
        /\ UNCHANGED server_vars


(***************************************************************************)
(* The state machine.                                                      *)
(***************************************************************************)
NoRequest == Absent

ChainIdle ==
    [state |-> "idle", with_user_tools |-> FALSE, cursor |-> "", pages |-> <<>>,
     calls |-> 0]

NoRegOp == [op |-> "none", tool |-> <<>>, before |-> <<>>]

\* The server after construction.
InitServer ==
    /\ board \in Boards
    /\ tools_ = <<>>
    /\ phase = "init"
    /\ reg_op = NoRegOp
    /\ req = NoRequest
    /\ sent = <<>>
    /\ queue = <<>>
    /\ camera_url = NoExplainUrl
    /\ chain = ChainIdle

Init == InitServer /\ InitDevice

Registered(op, tool, reg) ==
    /\ phase = "init"
    /\ Len(reg) <= MaxTools
    /\ tools_' = reg
    /\ reg_op' = [op |-> op, tool |-> tool, before |-> tools_]
    /\ UNCHANGED <<board, phase, req, sent, queue, camera_url, chain>>
    /\ UNCHANGED device_vars

\* A board calls AddTool(name, description, properties, callback).
RegisterTool(S) ==
    \E tool \in S : Registered("AddTool", <<tool>>, AddTool(tools_, tool))

\* A board calls AddUserOnlyTool(name, description, properties, callback).
RegisterUserOnlyTool(S) ==
    \E tool \in S : Registered("AddUserOnlyTool", <<tool>>, AddUserOnlyTool(tools_, tool))

RegisterCommonTools ==
    Registered("AddCommonTools", <<>>, AddCommonTools(tools_, board))

RegisterUserOnlyTools ==
    Registered("AddUserOnlyTools", <<>>, AddUserOnlyTools(tools_, board))

\* The application has started: the registry is no longer written.
StartServing ==
    /\ phase = "init"
    /\ phase' = "serving"
    /\ reg_op' = NoRegOp
    /\ UNCHANGED <<board, tools_, req, sent, queue, camera_url, chain>>
    /\ UNCHANGED device_vars

\* As PropertiesAfterBinding, for a loop that runs over the properties of
\* the tool themselves: they are left holding what the call bound.
PropertiesBoundInPlace(properties, arguments) == arguments

\* Line 552: arguments is a PropertyList of its own, initialised from the
\* properties of the tool; set_value (lines 559-566) writes to its elements,
\* and the properties of the tool are what they were.
PropertiesAfterBinding(properties, arguments) == properties

\* The registry after a call of ParseMessage that scheduled these closures.
ToolsAfterDispatch(reg, scheduled) ==
    IF scheduled = <<>> THEN reg
    ELSE [reg EXCEPT ![scheduled[1].tool_iter].properties =
                        PropertiesAfterBinding(@, scheduled[1].arguments)]

\* ParseMessage(json) on the dispatching context, while the main context
\* has room for what it schedules.
DispatchedUpTo(json, room) ==
    LET out == ParseMessage(tools_, board, camera_url, json)
    IN  /\ phase = "serving"
        /\ Len(queue) + Len(out.scheduled) <= room
        /\ req' = json
        /\ sent' = out.replies
        /\ queue' = queue \o out.scheduled
        /\ camera_url' = out.explain_url
        /\ tools_' = ToolsAfterDispatch(tools_, out.scheduled)
        /\ UNCHANGED <<board, phase, reg_op>>
        /\ UNCHANGED device_vars

Dispatched(json) == DispatchedUpTo(json, MaxQueue)

Receive(M) == \E json \in M : Dispatched(json) /\ chain' = ChainIdle

ReceiveUpTo(M, room) == \E json \in M : DispatchedUpTo(json, room) /\ chain' = ChainIdle

\* The client's side of a pagination sequence: what it holds after the reply.
ChainAfter(c, reply) ==
    IF reply.kind = "error"
    THEN [c EXCEPT !.state = "failed", !.calls = @ + 1]
    ELSE [c EXCEPT !.state = IF reply.result.nextCursor = "" THEN "done" ELSE "open",
                   !.cursor = reply.result.nextCursor,
                   !.pages = @ \o reply.result.tools,
                   !.calls = @ + 1]

\* The client sends tools/list("") with a flag of its choice.
ChainStart ==
    \E f \in BOOLEAN :
        LET json == Request(1, "tools/list",
                            Obj([cursor |-> Str(""), withUserTools |-> Bool(f)]))
        IN  /\ chain.state = "idle"
            /\ Dispatched(json)
            /\ chain' = ChainAfter([ChainIdle EXCEPT !.with_user_tools = f], sent'[1])

\* The client sends tools/list(nextCursor) with the flag of the sequence.
ChainNext ==
    LET json == Request(1, "tools/list",
                        Obj([cursor |-> Str(chain.cursor),
                             withUserTools |-> Bool(chain.with_user_tools)]))
    IN  /\ chain.state = "open"
        /\ Dispatched(json)
        /\ chain' = ChainAfter(chain, sent'[1])

Next ==
    \/ RegisterTool(BoardTools)
    \/ RegisterUserOnlyTool(BoardUserOnlyTools)
    \/ RegisterCommonTools
    \/ RegisterUserOnlyTools
    \/ StartServing
    \/ Receive(ListRequests(tools_))
    \/ ChainStart
    \/ ChainNext

Spec == Init /\ [][Next]_vars

(***************************************************************************)
(* The main context: the closures given to Application::Schedule run one   *)
(* at a time, oldest first.                                                *)
(***************************************************************************)
\* The handlers that can throw: the ones of the source that do, and the
\* handlers of board tools, of which nothing is known.
MayThrow(callback) ==
    callback \in {"take_photo", "screen_snapshot", "screen_preview_image", "board_tool"}

\* The closures a handler gives to Application::Schedule while it runs.
HandlerSchedules(callback) ==
    IF callback \in {"reboot", "upgrade_firmware"}
    THEN <<[kind |-> "app", what |-> callback]>>
    ELSE <<>>

\* McpTool::Call on the bound arguments: what the handler returned.
CallResult(tool, arguments) ==
    [tool |-> tool.name, callback |-> tool.callback,
     arguments |-> [i \in 1..Len(arguments) |-> arguments[i].value]]

\* As RunToolCall, for a lambda whose exception leaves the main context:
\* nothing is sent and what waited behind the closure is lost.
RunToolCallAborts(closure, throws) ==
    LET tool == tools_[closure.tool_iter]
    IN  /\ throws => MayThrow(tool.callback)
        /\ sent' = IF throws THEN sent
                   ELSE Append(sent, ReplyResult(closure.id,
                                                 CallResult(tool, closure.arguments)))
        /\ queue' = IF throws THEN <<>>
                    ELSE Tail(queue) \o HandlerSchedules(tool.callback)

\* As RunToolCall, for a lambda without the catch block: nothing is sent
\* when the handler throws.
RunToolCallNoCatch(closure, throws) ==
    LET tool == tools_[closure.tool_iter]
    IN  /\ throws => MayThrow(tool.callback)
        /\ sent' = IF throws THEN sent
                   ELSE Append(sent, ReplyResult(closure.id,
                                                 CallResult(tool, closure.arguments)))
        /\ queue' = Tail(queue)
                    \o (IF throws THEN <<>> ELSE HandlerSchedules(tool.callback))

\* As RunToolCall, for a lambda that replies once in the try block and once
\* more after it.
RunToolCallTwice(closure, throws) ==
    LET tool == tools_[closure.tool_iter]
        reply == IF throws THEN ReplyError(closure.id, "handler failed")
                 ELSE ReplyResult(closure.id, CallResult(tool, closure.arguments))
    IN  /\ throws => MayThrow(tool.callback)
        /\ sent' = sent \o <<reply, reply>>
        /\ queue' = Tail(queue)
                    \o (IF throws THEN <<>> ELSE HandlerSchedules(tool.callback))

\* The lambda of lines 584-591, with a handler that returns or throws.
RunToolCall(closure, throws) ==
    LET tool == tools_[closure.tool_iter]
    IN  /\ throws => MayThrow(tool.callback)
        /\ sent' = Append(sent,
                          IF throws THEN ReplyError(closure.id, "handler failed")
                          ELSE ReplyResult(closure.id, CallResult(tool, closure.arguments)))
        /\ queue' = Tail(queue)
                    \o (IF throws THEN <<>> ELSE HandlerSchedules(tool.callback))

\* The main context takes the oldest closure and runs it.
RunMain ==
    /\ phase = "serving"
    /\ queue # <<>>
    /\ IF Head(queue).kind = "tool_call"
       THEN \E throws \in BOOLEAN : RunToolCall(Head(queue), throws)
       ELSE queue' = Tail(queue) /\ sent' = sent
    /\ UNCHANGED <<board, tools_, phase, reg_op, req, camera_url, chain>>
    /\ UNCHANGED device_vars

(***************************************************************************)
(* A second specification, for tools/call: few tools, and the calls a      *)
(* client makes of them.                                                   *)
(***************************************************************************)
\* A board tool that takes an argument, as a board adds it with AddTool or
\* with AddUserOnlyTool.
CallBoardTools ==
    { McpTool("self.fan.set_speed", 200, <<PropertyRange("speed", 0, 3)>>, "board_tool") }

\* The arguments objects of the calls: none, one that suits every tool, one
\* that is out of range or of the wrong type for every tool.
CallArguments ==
    { Absent,
      Obj([volume |-> Num(50), speed |-> Num(2), url |-> Str("http://host/file")]),
      Obj([volume |-> Num(101), speed |-> Str("fast"), url |-> Num(0)]) }

CallNames(reg) == {"self.no_such_tool"} \cup {reg[i].name : i \in 1..Len(reg)}

CallRequests(reg) ==
    { Request(1, "tools/call", Obj([name |-> Str(n), arguments |-> a])) :
        n \in CallNames(reg), a \in CallArguments }

\* tools/list from the start, with and without the flag.
FirstPageRequests ==
    { Request(1, "tools/list", p) :
        p \in {Absent, Obj([withUserTools |-> Bool(TRUE)]),
               Obj([withUserTools |-> Bool(FALSE)])} }

NextCall ==
    \/ RegisterTool(CallBoardTools)
    \/ RegisterUserOnlyTool(CallBoardTools)
    \/ RegisterCommonTools
    \/ RegisterUserOnlyTools
    \/ StartServing
    \/ Receive(CallRequests(tools_))
    \/ Receive(FirstPageRequests)
    \/ RunMain

SpecCall == Init /\ [][NextCall]_vars

(***************************************************************************)
(* A third specification, for the dispatcher: messages of every envelope   *)
(* shape, of every method, with two request ids.                           *)
(***************************************************************************)
Null == [t |-> "null"]

Envelope(v, m, p, i) == Obj([jsonrpc |-> v, method |-> m, params |-> p, id |-> i])

\* params of a tools/call that binds.
GoodCall ==
    Obj([name |-> Str("self.audio_speaker.set_volume"),
         arguments |-> Obj([volume |-> Num(50)])])

\* params of tools/call: missing, binding, without arguments, with a name or
\* arguments of the wrong type, without a name.
CallShapes ==
    {Absent, GoodCall,
     Obj([name |-> Str("self.audio_speaker.set_volume")]),
     Obj([name |-> Num(1), arguments |-> Obj([volume |-> Num(50)])]),
     Obj([name |-> Str("self.audio_speaker.set_volume"), arguments |-> Str("none")]),
     Obj([arguments |-> Obj([volume |-> Num(50)])])}

RequestMethods == {"initialize", "tools/list", "tools/call", "ping"}

NotificationMethods == {"notifications/initialized", "notifications"}

\* Requests with a valid envelope.
ValidRequests ==
    { Request(i, "tools/call", p) : i \in {1, 2}, p \in CallShapes }
    \cup { Request(i, m, p) : i \in {1, 2}, m \in RequestMethods \ {"tools/call"},
                              p \in {Absent, GoodCall} }

\* Messages with one defect in the envelope: the version, the method, params
\* or the id.
Malformed ==
    { Envelope(v, Str(m), GoodCall, Num(1)) :
        v \in {Absent, Str("1.0"), Num(2)}, m \in RequestMethods }
    \cup { Envelope(Str("2.0"), m, GoodCall, Num(1)) : m \in {Absent, Num(1)} }
    \cup { Envelope(Str("2.0"), Str(m), p, Num(1)) :
             m \in RequestMethods, p \in {Null, Str("params")} }
    \cup { Envelope(Str("2.0"), Str(m), GoodCall, i) :
             m \in RequestMethods, i \in {Absent, Str("1")} }

\* Notifications, with and without an id, with params of every kind.
Notifications ==
    { Envelope(Str("2.0"), Str(m), p, i) :
        m \in NotificationMethods, p \in {Absent, Str("params"), GoodCall},
        i \in {Absent, Str("1"), Num(1)} }

Messages == ValidRequests \cup Malformed \cup Notifications

NextDispatch ==
    \/ RegisterCommonTools
    \/ StartServing
    \/ Receive(Messages)
    \/ RunMain

SpecDispatch == Init /\ [][NextDispatch]_vars

(***************************************************************************)
(* A fourth specification, for the main context: calls that bind, of a     *)
(* tool whose handler returns, of one whose handler schedules further work *)
(* and of one whose handler may throw, with two request ids and room for   *)
(* one closure more than MaxQueue.                                         *)
(***************************************************************************)
QueueNames ==
    {"self.audio_speaker.set_volume", "self.reboot", "self.camera.take_photo"}

QueueArguments == Obj([volume |-> Num(50), question |-> Str("what is this")])

QueueRequests ==
    { Request(i, "tools/call", Obj([name |-> Str(n), arguments |-> QueueArguments])) :
        i \in {1, 2}, n \in QueueNames }

NextQueue ==
    \/ RegisterCommonTools
    \/ RegisterUserOnlyTools
    \/ StartServing
    \/ ReceiveUpTo(QueueRequests, MaxQueue + 1)
    \/ RunMain

SpecQueue == Init /\ [][NextQueue]_vars

\* The main context eventually runs the closure at the head of its queue.
SpecQueueFair == SpecQueue /\ WF_vars(RunMain)

(***************************************************************************)
(* A fifth specification, for the device state machine used from one       *)
(* context: transitions to every state, listeners of every kind.           *)
(***************************************************************************)
NextDevice ==
    \/ \E new_state \in DeviceStates : TransitionTo(1, new_state)
    \/ TransitionToStore(1)
    \/ NotifyStateChangeLock(1)
    \/ NotifyStateChangeCopy(1)
    \/ NotifyStateChangeInvoke(1)
    \/ CallbackReturns(1)
    \/ NotifyStateChangeReturn(1)
    \/ AddStateChangeListener(1, Callbacks)
    \/ RemoveStateChangeListener(1)

SpecDevice == Init /\ [][NextDevice]_vars

\* TransitionTo as a function of the state it finds: the machine in each of
\* its states.
InitTransition ==
    /\ InitServer
    /\ current_state_ \in DeviceStates
    /\ listeners_ = <<>>
    /\ next_listener_id_ = 0
    /\ mutex_ = 0
    /\ ctx = [c \in Contexts |-> IdleContext]

SpecTransition == InitTransition /\ [][NextDevice]_vars

(***************************************************************************)
(* A sixth specification: two contexts call TransitionTo at the same time, *)
(* with at most one listener, which only takes note.                       *)
(***************************************************************************)
\* The states the two contexts ask for: the way from the start to WiFi
\* configuration, which has two successors that are no successors of each
\* other.
RaceTargets ==
    {kDeviceStateStarting, kDeviceStateWifiConfiguring, kDeviceStateActivating,
     kDeviceStateAudioTesting}

NextRace ==
    \/ \E c \in Contexts, new_state \in RaceTargets : TransitionTo(c, new_state)
    \/ \E c \in Contexts : TransitionToStore(c)
    \/ \E c \in Contexts : NotifyStateChangeLock(c)
    \/ \E c \in Contexts : NotifyStateChangeCopy(c)
    \/ \E c \in Contexts : NotifyStateChangeInvoke(c)
    \/ \E c \in Contexts : CallbackReturns(c)
    \/ \E c \in Contexts : NotifyStateChangeReturn(c)
    \/ (listeners_ = <<>> /\ AddStateChangeListener(1, {PlainCallback}))

SpecRace == Init /\ [][NextRace]_vars

(***************************************************************************)
(* What the claims speak of.                                               *)
(***************************************************************************)
UniqueNames(reg) ==
    \A i, j \in 1..Len(reg) : reg[i].name = reg[j].name => i = j

IsPrefix(p, q) == Len(p) <= Len(q) /\ \A i \in 1..Len(p) : p[i] = q[i]

\* The envelope of req passes the checks of the dispatcher and req is no
\* notification: the reply to req, if any, is sent[1].
ReqAccepted ==
    /\ cJSON_GetObjectItem(req, "jsonrpc") = Str("2.0")
    /\ cJSON_IsString(cJSON_GetObjectItem(req, "method"))
    /\ ~StartsWith(cJSON_GetObjectItem(req, "method").v, "notifications")
    /\ cJSON_GetObjectItem(req, "params").t \in {"absent", "object"}
    /\ cJSON_IsNumber(cJSON_GetObjectItem(req, "id"))

ReqParams == cJSON_GetObjectItem(req, "params")

\* req is a tools/list request that was answered.
ListServed ==
    /\ ReqAccepted
    /\ cJSON_GetObjectItem(req, "method").v = "tools/list"
    /\ Len(sent) >= 1

\* The cursor and the flag of the request, with their defaults.
ReqCursor ==
    IF cJSON_IsString(cJSON_GetObjectItem(ReqParams, "cursor"))
    THEN cJSON_GetObjectItem(ReqParams, "cursor").v ELSE ""

ReqWithUserTools ==
    /\ cJSON_IsBool(cJSON_GetObjectItem(ReqParams, "withUserTools"))
    /\ cJSON_GetObjectItem(ReqParams, "withUserTools").v

Eligible(reg, with_user_tools) ==
    SelectSeq(reg, LAMBDA t : with_user_tools \/ ~t.user_only)

\* The eligible tools from position start on, none when start is 0.
EligibleFrom(reg, start, with_user_tools) ==
    IF start = 0 THEN <<>>
    ELSE Eligible(SubSeq(reg, start, Len(reg)), with_user_tools)

\* The position a cursor stands for: the first tool without one, else the
\* first tool of that name, 0 when there is none.
CursorPosition(reg, cursor) ==
    IF cursor = "" THEN 1
    ELSE IF \E i \in 1..Len(reg) : reg[i].name = cursor
    THEN CHOOSE i \in 1..Len(reg) :
            reg[i].name = cursor /\ \A j \in 1..(i - 1) : reg[j].name # cursor
    ELSE 0

\* The candidates of the page req asks for.
ReqCandidates == EligibleFrom(tools_, CursorPosition(tools_, ReqCursor), ReqWithUserTools)

\* The length of the text that opens a page and holds the first k candidates,
\* each followed by its comma.
RECURSIVE PageSize(_, _)
PageSize(cand, k) ==
    IF k = 0 THEN Len(JsonOpen)
    ELSE PageSize(cand, k - 1) + cand[k].json_len + 1

\* The first k candidates stay within the budget, the reserve included.
FitsPage(cand, k) == PageSize(cand, k) + PayloadReserve <= max_payload_size

\* The number of leading candidates that fit one page.
FitCount(cand) ==
    CHOOSE k \in 0..Len(cand) :
        /\ \A j \in 1..k : FitsPage(cand, j)
        /\ k = Len(cand) \/ ~FitsPage(cand, k + 1)

\* Every tool fits a page on its own.
AllFit(reg) == \A i \in 1..Len(reg) : FitsPage(<<reg[i]>>, 1)

NamesOf(seq) == [i \in 1..Len(seq) |-> seq[i].name]

Max(a, b) == IF a >= b THEN a ELSE b

(***************************************************************************)
(* C1: Following nextCursor from tools/list("") with one flag, over a      *)
(* registry of unique names whose tools each fit a page, the pages         *)
(* received so far are a prefix of the eligible tools in registry order,   *)
(* each call but the last adds at least one tool and leaves the cursor on  *)
(* the next eligible tool, and when the sequence has ended the pages are   *)
(* exactly the eligible tools, after at most one call per eligible tool.   *)
(***************************************************************************)
C1_ChainEnumeratesOnce ==
    (chain.state # "idle" /\ UniqueNames(tools_) /\ AllFit(tools_)) =>
        LET eligible == NamesOf(Eligible(tools_, chain.with_user_tools))
        IN  /\ IsPrefix(chain.pages, eligible)
            /\ chain.calls <= Max(1, Len(eligible))
            /\ chain.state = "open" =>
                  /\ Len(chain.pages) >= chain.calls
                  /\ Len(chain.pages) < Len(eligible)
                  /\ chain.cursor = eligible[Len(chain.pages) + 1]
            /\ chain.state \in {"done", "failed"} => chain.pages = eligible
            /\ chain.state = "failed" => eligible = <<>>

\* A sequence of three calls has ended, and it has passed over a hidden tool.
C1_Witness ==
    /\ chain.state = "done"
    /\ chain.calls = 3
    /\ UniqueNames(tools_) /\ AllFit(tools_)
    /\ Len(chain.pages) = 3
    /\ Len(chain.pages) < Len(tools_)

(***************************************************************************)
(* C2, as claimed: a cursor naming the Nth tool resumes strictly after it, *)
(* so the page holds only eligible tools from position N+1 on.             *)
(***************************************************************************)
C2_ResumesStrictlyAfter ==
    (ListServed /\ ReqCursor # "" /\ sent[1].kind = "result"
                /\ CursorPosition(tools_, ReqCursor) # 0) =>
        IsPrefix(sent[1].result.tools,
                 NamesOf(EligibleFrom(SubSeq(tools_, CursorPosition(tools_, ReqCursor) + 1,
                                             Len(tools_)),
                                      1, ReqWithUserTools)))

(***************************************************************************)
(* C2, amended: without a cursor the listing starts at the first tool, and *)
(* with a cursor naming the Nth tool it resumes at that tool: the page     *)
(* holds only eligible tools from position N on, in order, and when the    *)
(* Nth tool is eligible it is the first candidate: the first tool of the   *)
(* page if it fits, and else the tool the error reply names.               *)
(***************************************************************************)
C2_ResumesAtCursor ==
    (ListServed /\ CursorPosition(tools_, ReqCursor) # 0) =>
        LET N == CursorPosition(tools_, ReqCursor)
            from_N == EligibleFrom(tools_, N, ReqWithUserTools)
            first == tools_[N]
            reply == sent[1]
        IN  /\ reply.kind = "result" => IsPrefix(reply.result.tools, NamesOf(from_N))
            /\ (tools_ # <<>> /\ (ReqWithUserTools \/ ~first.user_only)) =>
                  IF FitsPage(<<first>>, 1)
                  THEN reply.kind = "result" /\ reply.result.tools[1] = first.name
                  ELSE /\ reply.kind = "error"
                       /\ reply.message = "Failed to add tool " \o first.name
                                          \o " because of payload size limit"

\* A page asked for with the name of the third tool starts with that tool.
C2_Witness ==
    /\ ListServed
    /\ Len(tools_) >= 3
    /\ UniqueNames(tools_)
    /\ ReqCursor = tools_[3].name
    /\ sent[1].kind = "result"
    /\ sent[1].result.tools # <<>>
    /\ sent[1].result.tools[1] = tools_[3].name

(***************************************************************************)
(* C3: when no candidate overflows the budget, tools/list answers with a   *)
(* result that has no nextCursor, also when the page is empty.             *)
(***************************************************************************)
C3_NoOverflowIsSuccess ==
    (ListServed /\ FitsPage(ReqCandidates, Len(ReqCandidates))) =>
        /\ sent[1].kind = "result"
        /\ sent[1].result.nextCursor = ""

(***************************************************************************)
(* C4: the page is the longest run of leading candidates that fits the     *)
(* budget, and nextCursor is the name of the candidate after it, the first *)
(* one that would have pushed the total over the budget; there is no       *)
(* nextCursor when every candidate is in the page.                         *)
(***************************************************************************)
C4_PageStopsAtOverflow ==
    (ListServed /\ sent[1].kind = "result") =>
        LET cand == ReqCandidates
            k == FitCount(cand)
        IN  /\ sent[1].result.tools = NamesOf(SubSeq(cand, 1, k))
            /\ sent[1].result.nextCursor =
                  IF k < Len(cand) THEN cand[k + 1].name ELSE ""

\* Tools A, B, C where A+B fit and A+B+C do not: tools/list("") gave [A,B]
\* with nextCursor C, and now tools/list(C) has given [C] and no nextCursor.
C4_Witness ==
    /\ Len(tools_) = 3
    /\ \A i \in 1..3 : tools_[i].json_len = Half /\ ~tools_[i].user_only
    /\ chain.state = "done"
    /\ chain.calls = 2
    /\ chain.pages = NamesOf(tools_)
    /\ ReqCursor = tools_[3].name
    /\ sent = <<ReplyResult(1, [tools |-> <<tools_[3].name>>, nextCursor |-> "",
                                len |-> Len(JsonOpen) + Half + Len(JsonClose)])>>

(***************************************************************************)
(* C5: the result text of every successful tools/list reply is at most the *)
(* budget of 8000 long.                                                    *)
(***************************************************************************)
C5_ResultWithinBudget ==
    (ListServed /\ sent[1].kind = "result") =>
        sent[1].result.len <= max_payload_size

(***************************************************************************)
(* C6: when the first candidate of a page does not fit the budget on its   *)
(* own, the only reply to the request is an error reply.                   *)
(***************************************************************************)
C6_FirstCandidateTooBigIsError ==
    (ListServed /\ ReqCandidates # <<>> /\ ~FitsPage(ReqCandidates, 1)) =>
        /\ Len(sent) = 1
        /\ sent[1].kind = "error"
        /\ sent[1].id = cJSON_GetObjectItem(req, "id").v

\* The page was asked for at an oversized tool that is not the first of the
\* registry.
C6_Witness ==
    /\ ListServed
    /\ ReqCandidates # <<>>
    /\ ~FitsPage(ReqCandidates, 1)
    /\ ReqCursor # ""
    /\ CursorPosition(tools_, ReqCursor) > 1
    /\ sent[1].kind = "error"

(***************************************************************************)
(* C7: whatever registration calls were made, no two tools of the registry *)
(* have the same name.                                                     *)
(***************************************************************************)
C7_NamesAreUnique == UniqueNames(tools_)

(***************************************************************************)
(* C8: AddTool (and AddUserOnlyTool, which goes through it) with a name    *)
(* that is registered leaves the registry as it was: same size, same       *)
(* order, and the name still resolves to the tool registered first; with a *)
(* new name the tool becomes the last entry and the entries before it are  *)
(* the registry as it was.                                                 *)
(***************************************************************************)
C8_AddToolFirstWins ==
    reg_op.op \in {"AddTool", "AddUserOnlyTool"} =>
        LET before == reg_op.before
            tool == reg_op.tool[1]
            n == Len(before)
        IN  IF \E i \in 1..n : before[i].name = tool.name
            THEN /\ Len(tools_) = n
                 /\ \A i \in 1..n : tools_[i] = before[i]
                 /\ tools_[CursorPosition(tools_, tool.name)]
                        = before[CursorPosition(before, tool.name)]
            ELSE /\ Len(tools_) = n + 1
                 /\ \A i \in 1..n : tools_[i] = before[i]
                 /\ tools_[n + 1].name = tool.name
                 /\ tools_[n + 1].json_len = tool.json_len
                 /\ tools_[n + 1].callback = tool.callback
                 /\ tools_[n + 1].user_only = (reg_op.op = "AddUserOnlyTool")

\* AddTool was called with the name of a registered tool and another
\* description: the registry holds the tool registered first.
C8_Witness ==
    /\ reg_op.op = "AddTool"
    /\ \E i \in 1..Len(reg_op.before) :
          /\ reg_op.before[i].name = reg_op.tool[1].name
          /\ reg_op.before[i].json_len # reg_op.tool[1].json_len
          /\ tools_[i] = reg_op.before[i]
    /\ Len(tools_) = Len(reg_op.before)
    /\ Len(tools_) >= 2

(***************************************************************************)
(* C9: after AddCommonTools the registry is the common tools, in the order *)
(* of their AddTool calls, followed by the tools registered before the     *)
(* call, all of them and in the order they had.                            *)
(***************************************************************************)
CommonNames ==
    <<"self.get_device_status", "self.audio_speaker.set_volume", "self.led.turn_on">>
    \o (IF board.backlight THEN <<"self.screen.set_brightness">> ELSE <<>>)
    \o (IF board.lvgl /\ board.theme THEN <<"self.screen.set_theme">> ELSE <<>>)
    \o (IF board.lvgl /\ board.camera THEN <<"self.camera.take_photo">> ELSE <<>>)

C9_CommonToolsFirst ==
    reg_op.op = "AddCommonTools" =>
        LET before == reg_op.before
            k == Len(CommonNames)
        IN  /\ Len(tools_) = k + Len(before)
            /\ \A i \in 1..k : tools_[i].name = CommonNames[i] /\ ~tools_[i].user_only
            /\ \A i \in 1..Len(before) : tools_[k + i] = before[i]

\* AddCommonTools was called on a registry of two board tools.
C9_Witness ==
    /\ reg_op.op = "AddCommonTools"
    /\ Len(reg_op.before) = 2
    /\ UniqueNames(tools_)
    /\ tools_[1].name = "self.get_device_status"
    /\ tools_[Len(tools_)] = reg_op.before[2]

(***************************************************************************)
(* C10: a user-only tool is part of a tools/list result only when the      *)
(* request has withUserTools = true, and a tools/call that names a         *)
(* user-only tool is handled as it would be were the tool not user-only:   *)
(* the same error reply when binding fails, else the same closure with the *)
(* same bound arguments is scheduled, and its reply comes from the handler *)
(* of the tool.                                                            *)
(***************************************************************************)
\* req is a tools/call request that reached DoToolCall.
CallServed ==
    /\ ReqAccepted
    /\ cJSON_GetObjectItem(req, "method").v = "tools/call"
    /\ cJSON_IsObject(ReqParams)
    /\ cJSON_IsString(cJSON_GetObjectItem(ReqParams, "name"))
    /\ cJSON_GetObjectItem(ReqParams, "arguments").t \in {"absent", "object"}

ReqToolName == cJSON_GetObjectItem(ReqParams, "name").v

\* The registry with no tool marked user-only.
AllListed(reg) == [i \in 1..Len(reg) |-> [reg[i] EXCEPT !.user_only = FALSE]]

\* The closure is waiting on the main context, or it has run and its reply
\* has been sent.
ScheduledOrRun(closure) ==
    \/ \E i \in 1..Len(queue) : queue[i] = closure
    \/ \E i \in 1..Len(sent) :
          \/ sent[i] = ReplyResult(closure.id,
                                   CallResult(tools_[closure.tool_iter], closure.arguments))
          \/ sent[i] = ReplyError(closure.id, "handler failed")

C10_UserOnlyHiddenButCallable ==
    /\ (ListServed /\ sent[1].kind = "result" /\ ~ReqWithUserTools) =>
          \A j \in 1..Len(sent[1].result.tools) :
              \E i \in 1..Len(tools_) :
                  tools_[i].name = sent[1].result.tools[j] /\ ~tools_[i].user_only
    /\ (CallServed /\ ReqToolName # "" /\ CursorPosition(tools_, ReqToolName) # 0) =>
          LET tool == tools_[CursorPosition(tools_, ReqToolName)]
              out == ParseMessage(AllListed(tools_), board, camera_url, req)
          IN  tool.user_only =>
                 IF out.scheduled = <<>>
                 THEN Len(sent) >= 1 /\ sent[1] = out.replies[1]
                 ELSE ScheduledOrRun(out.scheduled[1])

\* A user-only tool that takes an argument was called, and its handler has
\* returned: the reply carries the argument it was given.
C10_Witness ==
    /\ CallServed
    /\ ReqToolName = "self.fan.set_speed"
    /\ CursorPosition(tools_, ReqToolName) # 0
    /\ tools_[CursorPosition(tools_, ReqToolName)].user_only
    /\ \E i \in 1..Len(tools_) : ~tools_[i].user_only
    /\ queue = <<>>
    /\ sent = <<ReplyResult(1, [tool |-> "self.fan.set_speed", callback |-> "board_tool",
                                arguments |-> <<Num(2)>>])>>

(***************************************************************************)
(* The steps of the serving phase, told apart by what they do to the queue *)
(* of the main context: the main context takes the head of the queue away, *)
(* the dispatcher only ever appends to it.  In a dispatch step req' is the *)
(* message dispatched.                                                     *)
(***************************************************************************)
MainStep == queue' # queue /\ Len(queue') <= Len(queue)

DispatchStep == phase = "serving" /\ phase' = "serving" /\ ~MainStep

\* The method of the message is a string that begins with "notifications".
IsNotification(j) ==
    /\ cJSON_GetObjectItem(j, "method").t = "string"
    /\ Len(cJSON_GetObjectItem(j, "method").v) >= Len("notifications")
    /\ SubSeq(cJSON_GetObjectItem(j, "method").v, 1, Len("notifications")) = "notifications"

\* The message passes the envelope checks and is no notification.
Accepted(j) ==
    /\ cJSON_GetObjectItem(j, "jsonrpc") = Str("2.0")
    /\ cJSON_IsString(cJSON_GetObjectItem(j, "method"))
    /\ ~IsNotification(j)
    /\ cJSON_GetObjectItem(j, "params").t \in {"absent", "object"}
    /\ cJSON_IsNumber(cJSON_GetObjectItem(j, "id"))

\* The message is a tools/call of the right shape: it reaches DoToolCall.
IsToolCall(j) ==
    /\ Accepted(j)
    /\ cJSON_GetObjectItem(j, "method").v = "tools/call"
    /\ cJSON_IsObject(cJSON_GetObjectItem(j, "params"))
    /\ cJSON_IsString(cJSON_GetObjectItem(cJSON_GetObjectItem(j, "params"), "name"))
    /\ cJSON_GetObjectItem(cJSON_GetObjectItem(j, "params"), "arguments").t
          \in {"absent", "object"}

IdOf(j) == cJSON_GetObjectItem(j, "id").v
CallName(j) == cJSON_GetObjectItem(cJSON_GetObjectItem(j, "params"), "name").v
CallArgs(j) == cJSON_GetObjectItem(cJSON_GetObjectItem(j, "params"), "arguments")

\* The tool a call names: the first of that name, 0 when there is none.
CalledTool(reg, j) ==
    IF \E i \in 1..Len(reg) : reg[i].name = CallName(j)
    THEN CHOOSE i \in 1..Len(reg) :
            reg[i].name = CallName(j) /\ \A k \in 1..(i - 1) : reg[k].name # CallName(j)
    ELSE 0

\* The argument the call gives for a property, when it is of the wire type
\* the property declares.
ArgumentFor(prop, j) ==
    LET a == cJSON_GetObjectItem(CallArgs(j), prop.name)
    IN  IF \/ prop.type = "boolean" /\ a.t = "bool"
           \/ prop.type = "integer" /\ a.t = "number"
           \/ prop.type = "string" /\ a.t = "string"
        THEN a ELSE Absent

OutOfRange(prop, a) ==
    prop.type = "integer" /\ prop.has_range /\ a.t = "number"
    /\ (a.v < prop.min \/ a.v > prop.max)

\* Why the binding of a property fails, if it does.
Unbound(prop, j) == ~prop.has_default /\ ArgumentFor(prop, j) = Absent
Rejected(prop, j) == OutOfRange(prop, ArgumentFor(prop, j))

BindingFails(tool, j) ==
    \E i \in 1..Len(tool.properties) :
        Unbound(tool.properties[i], j) \/ Rejected(tool.properties[i], j)

(***************************************************************************)
(* C11: when a tools/call is dispatched whose tool is found and whose      *)
(* binding fails (a property without a default has no argument of its wire *)
(* type, or an argument is outside the declared range), the dispatch sends *)
(* exactly one reply, an error with the id of the request, and leaves the  *)
(* queue of the main context as it was: nothing is enqueued, so no handler *)
(* runs for the request.                                                   *)
(***************************************************************************)
C11_Step ==
    (DispatchStep /\ IsToolCall(req') /\ CalledTool(tools_, req') # 0
       /\ BindingFails(tools_[CalledTool(tools_, req')], req'))
    => /\ Len(sent') = 1
       /\ sent'[1].kind = "error"
       /\ sent'[1].id = IdOf(req')
       /\ queue' = queue

C11_BindingFailureIsOneError == [][C11_Step]_vars

\* A call with a volume outside 0..100 was refused while an earlier call
\* was still waiting on the main context.
C11_Witness ==
    /\ IsToolCall(req)
    /\ CallName(req) = "self.audio_speaker.set_volume"
    /\ CalledTool(tools_, req) # 0
    /\ Rejected(tools_[CalledTool(tools_, req)].properties[1], req)
    /\ Len(sent) = 1 /\ sent[1].kind = "error"
    /\ queue # <<>>

(***************************************************************************)
(* C12: when a tools/call is dispatched whose tool is found and whose      *)
(* binding does not fail, no reply is sent by the dispatch and one closure *)
(* is enqueued in which every property holds the argument of its name if   *)
(* that argument has the wire type the property declares, and otherwise    *)
(* (argument missing or of another type) the default of the property,      *)
(* unconverted; and the handler is given exactly the values of the closure.*)
(***************************************************************************)
\* The value a property is bound to by the call.
BoundValue(prop, j) ==
    IF ArgumentFor(prop, j) # Absent THEN ArgumentFor(prop, j) ELSE prop.value

C12_Step ==
    /\ (DispatchStep /\ IsToolCall(req') /\ CalledTool(tools_, req') # 0
          /\ ~BindingFails(tools_[CalledTool(tools_, req')], req'))
       => LET tool == tools_[CalledTool(tools_, req')]
              closure == queue'[Len(queue')]
          IN  /\ sent' = <<>>
              /\ Len(queue') = Len(queue) + 1
              /\ closure.kind = "tool_call"
              /\ Len(closure.arguments) = Len(tool.properties)
              /\ \A i \in 1..Len(tool.properties) :
                    closure.arguments[i].value = BoundValue(tool.properties[i], req')
    /\ (MainStep /\ Head(queue).kind = "tool_call" /\ sent' # sent
          /\ sent'[Len(sent')].kind = "result")
       => /\ Len(sent'[Len(sent')].result.arguments) = Len(Head(queue).arguments)
          /\ \A i \in 1..Len(Head(queue).arguments) :
                sent'[Len(sent')].result.arguments[i] = Head(queue).arguments[i].value

C12_WrongTypeBindsDefault == [][C12_Step]_vars

\* self.upgrade_firmware was called with a number for its string property
\* url, which has a default: the handler was given the default.
C12_Witness ==
    /\ IsToolCall(req)
    /\ CallName(req) = "self.upgrade_firmware"
    /\ cJSON_GetObjectItem(CallArgs(req), "url") = Num(0)
    /\ CalledTool(tools_, req) # 0
    /\ tools_[CalledTool(tools_, req)].properties[1].has_default
    /\ Len(sent) = 1 /\ sent[1].kind = "result"
    /\ sent[1].result.tool = "self.upgrade_firmware"
    /\ sent[1].result.arguments = <<tools_[CalledTool(tools_, req)].properties[1].value>>

(***************************************************************************)
(* C13: when a tools/call is dispatched whose name is the name of no       *)
(* registered tool, the dispatch sends exactly one reply, the error        *)
(* "Unknown tool: <name>" with the id of the request, and leaves the queue *)
(* of the main context as it was: nothing is bound or enqueued and no      *)
(* handler runs for the request.                                           *)
(***************************************************************************)
C13_Step ==
    (DispatchStep /\ IsToolCall(req') /\ CalledTool(tools_, req') = 0)
    => /\ sent' = << [id |-> IdOf(req'), kind |-> "error",
                      message |-> "Unknown tool: " \o CallName(req')] >>
       /\ queue' = queue

C13_UnknownToolIsOneError == [][C13_Step]_vars

\* A call of a tool that does not exist was refused, with arguments that
\* would have suited the tools that do.
C13_Witness ==
    /\ IsToolCall(req)
    /\ tools_ # <<>>
    /\ CalledTool(tools_, req) = 0
    /\ cJSON_IsObject(CallArgs(req))
    /\ sent = << [id |-> IdOf(req), kind |-> "error",
                  message |-> "Unknown tool: self.no_such_tool"] >>

(***************************************************************************)
(* C14: when a message is dispatched whose method is a string that begins  *)
(* with "notifications", whatever its id and its params are, the dispatch  *)
(* sends no reply and leaves the queue of the main context as it was, so   *)
(* no handler runs for it.                                                 *)
(***************************************************************************)
C14_Step ==
    (DispatchStep /\ IsNotification(req')) => sent' = <<>> /\ queue' = queue

C14_NotificationsGetNoReply == [][C14_Step]_vars

\* A message of method "notifications" with a numeric id and the params of a
\* tools/call that would bind was dropped.
C14_Witness ==
    /\ phase = "serving"
    /\ tools_ # <<>>
    /\ req = Envelope(Str("2.0"), Str("notifications"), GoodCall, Num(1))
    /\ sent = <<>>
    /\ queue = <<>>

(***************************************************************************)
(* C15: when a message is dispatched whose envelope is malformed (jsonrpc  *)
(* is not the string "2.0", or method is not a string, or params is there  *)
(* and is no object, or id is not a number), whatever its method is, the   *)
(* dispatch sends no reply and leaves the queue of the main context as it  *)
(* was, so no handler runs for it.                                         *)
(***************************************************************************)
MalformedEnvelope(j) ==
    \/ cJSON_GetObjectItem(j, "jsonrpc") # Str("2.0")
    \/ cJSON_GetObjectItem(j, "method").t # "string"
    \/ cJSON_GetObjectItem(j, "params").t \notin {"absent", "object"}
    \/ cJSON_GetObjectItem(j, "id").t # "number"

C15_Step ==
    (DispatchStep /\ MalformedEnvelope(req')) => sent' = <<>> /\ queue' = queue

C15_MalformedEnvelopeIsDropped == [][C15_Step]_vars

\* A tools/call that would bind, but whose id is a string, was dropped while
\* the tool it names was registered.
C15_Witness ==
    /\ phase = "serving"
    /\ \E i \in 1..Len(tools_) : tools_[i].name = "self.audio_speaker.set_volume"
    /\ req = Envelope(Str("2.0"), Str("tools/call"), GoodCall, Str("1"))
    /\ sent = <<>>
    /\ queue = <<>>

(***************************************************************************)
(* C16: a dispatch either sends at most one reply and enqueues nothing, or *)
(* sends no reply and enqueues one closure; the reply and the closure      *)
(* carry the id of the message dispatched.  The main context, running a    *)
(* closure of a tools/call, takes it off the queue and sends exactly one   *)
(* reply, with the id of the closure, whether the handler returns or       *)
(* throws; what the handler enqueues is no tools/call closure, and other   *)
(* work run by the main context sends nothing.  So no message causes more  *)
(* than one reply and every reply has the id of the message that caused    *)
(* it.                                                                     *)
(***************************************************************************)
C16_Dispatch ==
    DispatchStep
    => /\ IsPrefix(queue, queue')
       /\ Len(sent') + (Len(queue') - Len(queue)) <= 1
       /\ \A i \in 1..Len(sent') :
             /\ cJSON_GetObjectItem(req', "id").t = "number"
             /\ sent'[i].id = IdOf(req')
       /\ \A i \in (Len(queue) + 1)..Len(queue') :
             /\ queue'[i].kind = "tool_call"
             /\ cJSON_GetObjectItem(req', "id").t = "number"
             /\ queue'[i].id = IdOf(req')

C16_Main ==
    MainStep
    => /\ IsPrefix(Tail(queue), queue')
       /\ \A i \in Len(queue)..Len(queue') : queue'[i].kind # "tool_call"
       /\ IF Head(queue).kind = "tool_call"
          THEN /\ Len(sent') = Len(sent) + 1
               /\ IsPrefix(sent, sent')
               /\ sent'[Len(sent')].id = Head(queue).id
          ELSE sent' = sent

QueueBound ==
    { <<>>,
      << [name |-> "volume", type |-> "integer", has_default |-> FALSE,
          value |-> Num(50), has_range |-> TRUE, min |-> 0, max |-> 100] >>,
      << [name |-> "question", type |-> "string", has_default |-> FALSE,
          value |-> Str("what is this"), has_range |-> FALSE, min |-> 0, max |-> 0] >> }

\* The closures a tools/call of QueueRequests can enqueue.
QueueClosures ==
    { [kind |-> "tool_call", id |-> i, tool_iter |-> k, arguments |-> a] :
        i \in {1, 2}, k \in 1..MaxTools, a \in QueueBound }

Waiting(closure) == \E i \in 1..Len(queue) : queue[i] = closure

ResultOf(closure) ==
    [id |-> closure.id, kind |-> "result",
     result |-> [tool |-> tools_[closure.tool_iter].name,
                 callback |-> tools_[closure.tool_iter].callback,
                 arguments |-> [i \in 1..Len(closure.arguments) |->
                                   closure.arguments[i].value]]]

\* The reply of the catch block of the closure.
ErrorOf(closure) == [id |-> closure.id, kind |-> "error", message |-> "handler failed"]

Replied(closure) ==
    /\ closure.tool_iter \in 1..Len(tools_)
    /\ \E i \in 1..Len(sent) :
          \/ sent[i] = ResultOf(closure)
          \/ sent[i] = ErrorOf(closure)

C17_Step ==
    (MainStep /\ Head(queue).kind = "tool_call")
    => /\ Len(sent') = Len(sent) + 1
       /\ IsPrefix(sent, sent')
       /\ \/ sent'[Len(sent')] = ResultOf(Head(queue))
          \/ sent'[Len(sent')] = ErrorOf(Head(queue))

C17_BoundCallGetsReply ==
    /\ \A closure \in QueueClosures :
          (Waiting(closure) /\ ~Replied(closure)) ~> Replied(closure)
    /\ [][C17_Step]_vars

\* Two calls were enqueued one behind the other and the handlers of both
\* have returned.
C17_Witness ==
    /\ IsToolCall(req)
    /\ queue = <<>>
    /\ Len(sent) = 2
    /\ sent[1].kind = "result" /\ sent[1].id = 1
    /\ sent[2].kind = "result" /\ sent[2].id = 2

(***************************************************************************)
(* C18: the dispatch of a tools/call sends no result: a call that binds is *)
(* put once, as one closure with the id of the request, at the end of the  *)
(* queue of the main context.  The main context runs the closure at the    *)
(* head of the queue and no other, so closures run one at a time in the    *)
(* order they were enqueued, work enqueued by a handler included, which    *)
(* goes to the end of the queue; and the reply of a call is sent by the    *)
(* step that runs its closure, not before.                                 *)
(***************************************************************************)
C18_Dispatch ==
    (DispatchStep /\ IsToolCall(req'))
    => /\ \A i \in 1..Len(sent') : sent'[i].kind # "result"
       /\ (CalledTool(tools_, req') # 0
             /\ ~BindingFails(tools_[CalledTool(tools_, req')], req'))
          => /\ sent' = <<>>
             /\ Len(queue') = Len(queue) + 1
             /\ SubSeq(queue', 1, Len(queue)) = queue
             /\ queue'[Len(queue')].kind = "tool_call"
             /\ queue'[Len(queue')].id = IdOf(req')
             /\ queue'[Len(queue')].tool_iter = CalledTool(tools_, req')

C18_Main ==
    MainStep
    => /\ Len(queue') >= Len(queue) - 1
       /\ SubSeq(queue', 1, Len(queue) - 1) = Tail(queue)
       /\ IF Head(queue).kind = "tool_call"
          THEN /\ SubSeq(sent', 1, Len(sent)) = sent
               /\ Len(sent') = Len(sent) + 1
               /\ sent'[Len(sent')] \in {ResultOf(Head(queue)), ErrorOf(Head(queue))}
          ELSE sent' = sent

C18_HandlersRunInOrderOnMain == [][C18_Dispatch /\ C18_Main]_vars

\* self.reboot and then self.audio_speaker.set_volume were called.  The
\* handlers ran in that order, and the work the first handler enqueued
\* stands behind the second call, which was enqueued before it.
C18_Witness ==
    /\ Len(sent) = 2
    /\ sent[1].kind = "result" /\ sent[1].id = 1 /\ sent[1].result.tool = "self.reboot"
    /\ sent[2].kind = "result" /\ sent[2].id = 2
    /\ sent[2].result.tool = "self.audio_speaker.set_volume"
    /\ queue = <<[kind |-> "app", what |-> "reboot"]>>

(***************************************************************************)
(* C19: the step in which a handler throws sends the error reply of that   *)
(* request and nothing else, and takes only that closure off the queue:    *)
(* the closures behind it stay, in their order.  Afterwards, as in every   *)
(* state of the serving phase, the main context can run the next closure   *)
(* when there is one and the dispatcher can take the next message.         *)
(***************************************************************************)
C19_Step ==
    (MainStep /\ Head(queue).kind = "tool_call"
       /\ (sent' = sent \/ sent'[Len(sent')].kind = "error"))
    => /\ sent' = Append(sent, ErrorOf(Head(queue)))
       /\ queue' = Tail(queue)
       /\ phase' = "serving"
       /\ tools_' = tools_

C19_Alive ==
    phase = "serving"
    => /\ queue # <<>> => ENABLED RunMain
       /\ Len(queue) <= MaxQueue => ENABLED ReceiveUpTo(QueueRequests, MaxQueue + 1)

C19_ThrowingHandlerIsContained == [][C19_Step]_vars /\ []C19_Alive

\* The handler of self.camera.take_photo threw; the call enqueued behind it
\* ran all the same and was answered.
C19_Witness ==
    /\ Len(sent) = 2
    /\ sent[1] = [id |-> 1, kind |-> "error", message |-> "handler failed"]
    /\ sent[2].kind = "result" /\ sent[2].id = 2
    /\ sent[2].result.tool = "self.audio_speaker.set_volume"
    /\ queue = <<>>

(***************************************************************************)
(* C20: when a message with a valid envelope is dispatched that is no      *)
(* notification, then if its method is none of initialize, tools/list and  *)
(* tools/call the dispatch sends exactly one reply, the error "Method not  *)
(* implemented: <method>" with the id of the request; and if it is a       *)
(* tools/call whose params are missing, or whose name is missing or no     *)
(* string, or whose arguments are there and are no object, the dispatch    *)
(* sends exactly one reply, the error that names the defect, with the id   *)
(* of the request.  In both cases the queue of the main context stays as   *)
(* it was: no tool is looked up, bound or scheduled.                       *)
(***************************************************************************)
MethodOf(j) == cJSON_GetObjectItem(j, "method").v

\* What is wrong with the params of a tools/call, "" when nothing is.
CallDefect(j) ==
    LET params == cJSON_GetObjectItem(j, "params")
    IN  IF params.t # "object" THEN "Missing params"
        ELSE IF cJSON_GetObjectItem(params, "name").t # "string" THEN "Missing name"
        ELSE IF cJSON_GetObjectItem(params, "arguments").t \notin {"absent", "object"}
        THEN "Invalid arguments"
        ELSE ""

C20_Step ==
    /\ (DispatchStep /\ Accepted(req')
          /\ MethodOf(req') \notin {"initialize", "tools/list", "tools/call"})
       => /\ sent' = << [id |-> IdOf(req'), kind |-> "error",
                         message |-> "Method not implemented: " \o MethodOf(req')] >>
          /\ queue' = queue
    /\ (DispatchStep /\ Accepted(req') /\ MethodOf(req') = "tools/call"
          /\ CallDefect(req') # "")
       => /\ sent' = << [id |-> IdOf(req'), kind |-> "error",
                         message |-> CallDefect(req')] >>
          /\ queue' = queue

C20_UnknownMethodAndBadCallAreErrors == [][C20_Step]_vars

\* A tools/call of a registered tool whose arguments are a string was
\* refused with one error, and nothing was enqueued.
C20_Witness ==
    /\ phase = "serving"
    /\ \E i \in 1..Len(tools_) : tools_[i].name = "self.audio_speaker.set_volume"
    /\ req = Request(2, "tools/call",
                     Obj([name |-> Str("self.audio_speaker.set_volume"),
                          arguments |-> Str("none")]))
    /\ sent = << [id |-> 2, kind |-> "error", message |-> "Invalid arguments"] >>
    /\ queue = <<>>

(***************************************************************************)
(* The transition table of the device states, as the glossary gives it.    *)
(***************************************************************************)
TransitionTable ==
    { <<kDeviceStateUnknown, kDeviceStateStarting>>,
      <<kDeviceStateStarting, kDeviceStateWifiConfiguring>>,
      <<kDeviceStateStarting, kDeviceStateActivating>>,
      <<kDeviceStateWifiConfiguring, kDeviceStateActivating>>,
      <<kDeviceStateWifiConfiguring, kDeviceStateAudioTesting>>,
      <<kDeviceStateAudioTesting, kDeviceStateWifiConfiguring>>,
      <<kDeviceStateActivating, kDeviceStateUpgrading>>,
      <<kDeviceStateActivating, kDeviceStateIdle>>,
      <<kDeviceStateActivating, kDeviceStateWifiConfiguring>>,
      <<kDeviceStateUpgrading, kDeviceStateIdle>>,
      <<kDeviceStateUpgrading, kDeviceStateActivating>>,
      <<kDeviceStateIdle, kDeviceStateConnecting>>,
      <<kDeviceStateIdle, kDeviceStateListening>>,
      <<kDeviceStateIdle, kDeviceStateSpeaking>>,
      <<kDeviceStateIdle, kDeviceStateActivating>>,
      <<kDeviceStateIdle, kDeviceStateUpgrading>>,
      <<kDeviceStateIdle, kDeviceStateWifiConfiguring>>,
      <<kDeviceStateConnecting, kDeviceStateIdle>>,
      <<kDeviceStateConnecting, kDeviceStateListening>>,
      <<kDeviceStateListening, kDeviceStateSpeaking>>,
      <<kDeviceStateListening, kDeviceStateIdle>>,
      <<kDeviceStateSpeaking, kDeviceStateListening>>,
      <<kDeviceStateSpeaking, kDeviceStateIdle>> }

Legal(from, to) == from = to \/ <<from, to>> \in TransitionTable

\* Context c begins a call of TransitionTo in this step.
CallBegins(c) == ctx[c].pc = "idle" /\ ctx'[c] # ctx[c]

\* Context c has returned from a call of TransitionTo and made no other since.
Returned(c) == ctx[c].pc = "idle" /\ ctx[c].ret # "none"

(***************************************************************************)
(* C21: with one context, a call TransitionTo(to) that finds the state     *)
(* `from` returns false at once and leaves the state alone when (from,to)  *)
(* is no edge of the table and from # to, and returns true otherwise;      *)
(* after a call that returned true the current state is `to`, after one    *)
(* that returned false it is still `from`.  So from FatalError every call  *)
(* with another target returns false and the state stays FatalError.       *)
(***************************************************************************)
C21_Call ==
    CallBegins(1)
    => LET from == current_state_
           to == ctx'[1].new_state
       IN  /\ ctx'[1].old_state = from
           /\ IF Legal(from, to)
              THEN IF from = to
                   THEN ctx'[1].pc = "idle" /\ ctx'[1].ret = "true"
                   ELSE ctx'[1].pc # "idle" /\ ctx'[1].ret = "none"
              ELSE ctx'[1].pc = "idle" /\ ctx'[1].ret = "false"
           /\ current_state_' = from

C21_Returned ==
    Returned(1)
    => LET from == ctx[1].old_state
           to == ctx[1].new_state
       IN  /\ ctx[1].ret = "true" <=> Legal(from, to)
           /\ ctx[1].ret = "true" => current_state_ = to
           /\ ctx[1].ret = "false" => current_state_ = from
           /\ (from = kDeviceStateFatalError /\ to # from)
              => ctx[1].ret = "false" /\ current_state_ = kDeviceStateFatalError

C21_TransitionFollowsTable == [][C21_Call]_vars /\ []C21_Returned

\* In the state FatalError a transition to Starting was asked for and
\* refused.
C21_Witness ==
    /\ Returned(1)
    /\ ctx[1].old_state = kDeviceStateFatalError
    /\ ctx[1].new_state = kDeviceStateStarting
    /\ ctx[1].ret = "false"
    /\ current_state_ = kDeviceStateFatalError

\* The call of TransitionTo that context c is in, or has returned from, has
\* stored its target.
Succeeded(c) == ctx[c].ret = "true" /\ ctx[c].old_state # ctx[c].new_state

(***************************************************************************)
(* C22: with one context, a call of TransitionTo that stored a new state   *)
(* has, when it returns, called the callback of every listener that was    *)
(* registered when the call was made, once each and in their order, with   *)
(* the state found and the state asked for, and each callback saw the new  *)
(* state already stored.  A call that was refused, or that asked for the   *)
(* state the machine was in, has called no callback.                       *)
(***************************************************************************)
C22_Snapshot ==
    /\ ctx[1].pc \in {"store", "lock", "copy"} => listeners_' = listeners_
    /\ (ctx[1].pc = "copy" /\ ctx'[1].pc # "copy") => ctx'[1].at_copy = listeners_

C22_Notified ==
    /\ ctx[1].pc \in {"store", "lock", "copy"} => ctx[1].invoked = <<>>
    /\ \A k \in 1..Len(ctx[1].invoked) :
          /\ ctx[1].invoked[k].cb = ctx[1].at_copy[k].cb
          /\ ctx[1].invoked[k].old = ctx[1].old_state
          /\ ctx[1].invoked[k].new = ctx[1].new_state
          /\ ctx[1].invoked[k].current = ctx[1].new_state
    /\ (Returned(1) /\ Succeeded(1))
          => Len(ctx[1].invoked) = Len(ctx[1].at_copy)
    /\ (Returned(1) /\ ~Succeeded(1)) => ctx[1].invoked = <<>>

C22_ListenersNotifiedOnce == [][C22_Snapshot]_vars /\ []C22_Notified

\* A transition to another state has returned after calling two listeners.
C22_Witness ==
    /\ Returned(1)
    /\ Succeeded(1)
    /\ Len(ctx[1].invoked) = 2
    /\ current_state_ = ctx[1].new_state

(***************************************************************************)
(* C23: once the server serves, no step changes the registry: after every  *)
(* sequence of tools/call requests each tool has the properties it was     *)
(* registered with.  The dispatch of a call leaves the closures that wait  *)
(* on the main context as they were, and in the closure it enqueues a      *)
(* property for which the call gives no argument of its type holds the     *)
(* default of the registered tool, whatever earlier calls bound.           *)
(***************************************************************************)
C23_Step ==
    /\ (phase = "serving" /\ phase' = "serving") => tools_' = tools_
    /\ DispatchStep
       => /\ Len(queue') >= Len(queue)
          /\ SubSeq(queue', 1, Len(queue)) = queue
    /\ (DispatchStep /\ Len(queue') > Len(queue))
       => LET closure == queue'[Len(queue')]
              tool == tools_[closure.tool_iter]
          IN  \A i \in 1..Len(tool.properties) :
                 ArgumentFor(tool.properties[i], req') = Absent
                 => closure.arguments[i] = tool.properties[i]

InRegistrationOrder(ls) == \A j, k \in 1..Len(ls) : j < k => ls[j].id < ls[k].id

(***************************************************************************)
(* C24: NotifyStateChange copies the callbacks while it holds mutex_ and   *)
(* has given it up when the copy is made; mutex_ is free whenever a        *)
(* callback runs, so a callback that adds or removes a listener can always *)
(* go on and return.  The callbacks called are those of the listeners      *)
(* registered when the copy was made, in the order of registration, also   *)
(* when a callback has changed the listeners since.                        *)
(***************************************************************************)
C24_Copy ==
    (ctx[1].pc = "copy" /\ ctx'[1].pc # "copy")
    => /\ mutex_ = 1
       /\ mutex_' = 0
       /\ ctx'[1].at_copy = listeners_
       /\ ctx'[1].callbacks_copy = [k \in 1..Len(listeners_) |-> listeners_[k].cb]

C24_Callbacks ==
    /\ ctx[1].pc \in {"invoke", "callback"} => mutex_ = 0
    /\ ctx[1].pc = "callback" => ENABLED CallbackReturns(1)
    /\ \A k \in 1..Len(ctx[1].invoked) :
          /\ ~ctx[1].invoked[k].holding
          /\ ctx[1].invoked[k].cb = ctx[1].at_copy[k].cb
    /\ InRegistrationOrder(ctx[1].at_copy)
    /\ (Returned(1) /\ Succeeded(1)) => Len(ctx[1].invoked) = Len(ctx[1].at_copy)

C24_CallbacksRunUnlocked == [][C24_Copy]_vars /\ []C24_Callbacks

\* The first of two listeners removed the second when it was called, and
\* the second was called all the same.
C24_Witness ==
    /\ Returned(1)
    /\ Len(ctx[1].invoked) = 2
    /\ ctx[1].invoked[1].cb.kind = "remove"
    /\ ctx[1].invoked[1].cb.target = ctx[1].at_copy[2].id
    /\ Len(listeners_) = 1
    /\ mutex_ = 0

\* Context c stores its target in this step.
Stores(c) == ctx[c].pc = "store" /\ ctx'[c].pc # "store"

(***************************************************************************)
(* C25: the load, the check and the store of TransitionTo are three steps. *)
(* What a context stores is a legal successor of the state it read, and    *)
(* its listeners are told of the state it read; the state it replaces is   *)
(* the state it read unless another context has stored in between, and     *)
(* then the change of the current state need not be an edge of the table   *)
(* and the listeners are told of an old state that is not the one          *)
(* replaced.  C25_Witness is such a run of two contexts.                   *)
(***************************************************************************)
C25_Store ==
    \A c \in Contexts :
        Stores(c)
        => /\ current_state_' = ctx[c].new_state
           /\ ctx[c].old_state # ctx[c].new_state
           /\ <<ctx[c].old_state, ctx[c].new_state>> \in TransitionTable
           /\ ctx'[c].replaced = current_state_
           /\ current_state_ = ctx[c].old_state
              => <<current_state_, current_state_'>> \in TransitionTable

C25_Told ==
    \A c \in Contexts :
        \A k \in 1..Len(ctx[c].invoked) :
            /\ ctx[c].invoked[k].old = ctx[c].old_state
            /\ ctx[c].invoked[k].new = ctx[c].new_state
            /\ <<ctx[c].invoked[k].old, ctx[c].invoked[k].new>> \in TransitionTable

C25_CheckIsOfTheStateRead == [][C25_Store]_vars /\ []C25_Told

\* Both contexts read WifiConfiguring; the first stored Activating, the
\* second replaced it by AudioTesting, which is no successor of Activating,
\* and told the listener of a change from WifiConfiguring.
C25_Witness ==
    /\ ctx[1].old_state = kDeviceStateWifiConfiguring
    /\ ctx[2].old_state = kDeviceStateWifiConfiguring
    /\ ctx[1].new_state = kDeviceStateActivating
    /\ ctx[2].new_state = kDeviceStateAudioTesting
    /\ Returned(1) /\ ctx[1].ret = "true"
    /\ Returned(2) /\ ctx[2].ret = "true"
    /\ ctx[2].replaced = kDeviceStateActivating
    /\ <<ctx[2].replaced, ctx[2].new_state>> \notin TransitionTable
    /\ current_state_ = kDeviceStateAudioTesting
    /\ Len(ctx[2].invoked) = 1
    /\ ctx[2].invoked[1].old = kDeviceStateWifiConfiguring
    /\ ctx[2].invoked[1].old # ctx[2].replaced

(***************************************************************************)
(* C26: a machine that starts in Unknown and is used from one context is   *)
(* never in FatalError; it enters no state Unknown from another state, and *)
(* it enters Starting from Unknown only: once it has left Unknown it is    *)
(* never Unknown again, once it has left Starting it is never Starting     *)
(* again.                                                                  *)
(***************************************************************************)
C26_Step ==
    /\ current_state_' = kDeviceStateUnknown => current_state_ = kDeviceStateUnknown
    /\ current_state_' = kDeviceStateStarting
       => current_state_ \in {kDeviceStateUnknown, kDeviceStateStarting}
    /\ current_state_ = kDeviceStateStarting => current_state_' # kDeviceStateUnknown

C26_NoWayBack ==
    [](current_state_ # kDeviceStateFatalError) /\ [][C26_Step]_vars

\* In the state Idle a transition to Starting was asked for and refused.
C26_Witness ==
    /\ Returned(1)
    /\ ctx[1].old_state = kDeviceStateIdle
    /\ ctx[1].new_state = kDeviceStateStarting
    /\ ctx[1].ret = "false"
    /\ current_state_ = kDeviceStateIdle

====
